---- MODULE Spec2Model ----
(***************************************************************************)
(* A model of base-MSDB-TS (MSDBTS V17, src/unnamed/part_001): the LRU     *)
(* cache of decoded shards (LRUCache), the shard store with its write      *)
(* queue and indices (FileManager), and the table facade with its record   *)
(* map and save queue (DataManager, createTable).                          *)
(*                                                                         *)
(* JavaScript runs one callback to completion at a time, so every action   *)
(* below is one synchronous stretch of code: a call made by the user, a    *)
(* timer callback, the completion of a disk call together with the code    *)
(* that runs up to the next await.  Continuations that the event loop may  *)
(* order in more than one way are separate actions.                        *)
(*                                                                         *)
(* Scaling.  Ids are 1..MaxIds, a record value is [f |-> x], a shard is a  *)
(* function from ids to entries, a shard file name data.NNNNN.json is its  *)
(* index NNNNN (padStart(5,'0') and parseInt are inverse to each other     *)
(* below 100000, and the sort of the padded names is the numeric order).   *)
(* The limits of CONFIG keep their names and get small values.  An entry   *)
(* keeps id and value; created_at, updated_at and version are written and  *)
(* never read by the code modelled here.                                   *)
(***************************************************************************)
EXTENDS Integers, Sequences, FiniteSets, TLC

\* ---------------------------------------------------------------- bounds
MaxIds == 3
MaxVal == 2
MaxOps == 3
MaxTime == 2
MaxOpens == 1
MaxFiles == 2
MaxCalls == 1
MaxRecords == 2
MaxSaves == 4
MaxTx == 3

\* ------------------------------------------------- CONFIG, scaled down
MAX_ENTRIES_PER_FILE == 2
DEFAULT_SIZE == 3
DEFAULT_LIMIT_MB == 20
LRU_MAX_AGE == 1
BATCH_SIZE == 2
\* maxMemoryMB * 1024 * 1024, in the unit of calculateSize below
MB == 1
\* CONFIG of src/src/msdb.ts
PART_SIZE == 2
CACHE_LIMIT == 2

Ids == 1..MaxIds
Values == [f : 1..MaxVal]
Fields == {"f"}
Files == 0..MaxOps
Null == [null |-> TRUE]

Min(a, b) == IF a < b THEN a ELSE b
Max(a, b) == IF a > b THEN a ELSE b

\* ------------------------------------------------------- plain objects
EmptyObj == <<>>
Keys(obj) == DOMAIN obj
Put(obj, k, v) == [x \in DOMAIN obj \cup {k} |-> IF x = k THEN v ELSE obj[x]]
Del(obj, k) == [x \in DOMAIN obj \ {k} |-> obj[x]]
Entry(id, value) == [id |-> id, value |-> value]

\* F applied to the value of v, v evaluated once (a JavaScript argument or
\* local variable is evaluated once, where it is bound)
Once(v, F(_)) == CHOOSE r \in {F(x) : x \in {v}} : TRUE

RECURSIVE Without(_, _)
Without(seq, k) ==
    IF seq = <<>> THEN <<>>
    ELSE IF Head(seq) = k THEN Without(Tail(seq), k)
    ELSE <<Head(seq)>> \o Without(Tail(seq), k)

\* ------------------------------------------------------------ LRUCache
\* cache: key -> {value, accessTime, size}; keyOrder is the insertion order of
\* the Map (what cache.entries() iterates); accessOrder is the recency list.
LRUNew(maxSize, maxMemoryMB) ==
    [cache |-> EmptyObj, keyOrder |-> <<>>, accessOrder |-> <<>>,
     maxSize |-> maxSize, maxMemoryMB |-> maxMemoryMB, currentMemoryBytes |-> 0,
     emitted |-> {}]   \* the keys of the 'evicted' events emitted so far

updateAccessOrder(order, key) == Append(Without(order, key), key)

\* JSON.stringify(value).length * 2: "{}" plus a fixed length per entry
calculateSize(value) == (2 + 2 * Cardinality(Keys(value))) * 2

\* an evictLRU that takes the key used last
RECURSIVE evictMRU(_)
evictMRU(c0) == Once(c0, LAMBDA c :
    IF Len(c.accessOrder) > 0
       /\ (Cardinality(Keys(c.cache)) >= c.maxSize
           \/ c.currentMemoryBytes > c.maxMemoryMB * MB)
    THEN LET newestKey == c.accessOrder[Len(c.accessOrder)]
             c1 == [c EXCEPT !.accessOrder = SubSeq(@, 1, Len(@) - 1)]
         IN IF newestKey \in Keys(c.cache)
            THEN evictMRU([c1 EXCEPT
                     !.currentMemoryBytes = @ - c.cache[newestKey].size,
                     !.cache = Del(@, newestKey),
                     !.keyOrder = Without(@, newestKey),
                     !.emitted = @ \cup {newestKey}])
            ELSE evictMRU(c1)
    ELSE c)

RECURSIVE evictLRU(_)
evictLRU(c0) == Once(c0, LAMBDA c :
    IF Len(c.accessOrder) > 0
       /\ (Cardinality(Keys(c.cache)) >= c.maxSize
           \/ c.currentMemoryBytes > c.maxMemoryMB * MB)
    THEN LET oldestKey == Head(c.accessOrder)
             c1 == [c EXCEPT !.accessOrder = Tail(@)]
         IN IF oldestKey \in Keys(c.cache)
            THEN evictLRU([c1 EXCEPT
                     !.currentMemoryBytes = @ - c.cache[oldestKey].size,
                     !.cache = Del(@, oldestKey),
                     !.keyOrder = Without(@, oldestKey),
                     !.emitted = @ \cup {oldestKey}])
            ELSE evictLRU(c1)
    ELSE c)

\* a set that adds the new size without taking the replaced entry's size off
LRUsetKeepOld(c0, key, value0, t) == Once(c0, LAMBDA c : Once(value0, LAMBDA value :
    LET size == calculateSize(value)
    IN evictLRU([c EXCEPT
           !.cache = Put(@, key, [value |-> value, accessTime |-> t, size |-> size]),
           !.keyOrder = IF key \in Keys(c.cache) THEN @ ELSE Append(@, key),
           !.currentMemoryBytes = @ + size,
           !.accessOrder = updateAccessOrder(@, key)])))

\* set that forgets to evict
LRUsetNoEvict(c0, key, value0, t) == Once(c0, LAMBDA c : Once(value0, LAMBDA value :
    LET size == calculateSize(value)
    IN [c EXCEPT
           !.cache = Put(@, key, [value |-> value, accessTime |-> t, size |-> size]),
           !.keyOrder = IF key \in Keys(c.cache) THEN @ ELSE Append(@, key),
           !.currentMemoryBytes = @ + size,
           !.accessOrder = updateAccessOrder(@, key)]))

LRUset(c0, key, value0, t) == Once(c0, LAMBDA c : Once(value0, LAMBDA value :
    LET size == calculateSize(value)
        mem0 == IF key \in Keys(c.cache)
                THEN c.currentMemoryBytes - c.cache[key].size
                ELSE c.currentMemoryBytes
    IN evictLRU([c EXCEPT
           !.cache = Put(@, key, [value |-> value, accessTime |-> t, size |-> size]),
           !.keyOrder = IF key \in Keys(c.cache) THEN @ ELSE Append(@, key),
           !.currentMemoryBytes = mem0 + size,
           !.accessOrder = updateAccessOrder(@, key)])))

\* get returns the value (or null) and refreshes the entry: the two halves
LRUgetValue(c, key) == IF key \in Keys(c.cache) THEN c.cache[key].value ELSE Null
LRUgetTouch(c0, key, t) == Once(c0, LAMBDA c :
    IF key \in Keys(c.cache)
    THEN [c EXCEPT !.cache[key].accessTime = t,
                   !.accessOrder = updateAccessOrder(@, key)]
    ELSE c)

\* a delete that leaves the key in the access order
LRUdeleteKeepOrder(c0, key) == Once(c0, LAMBDA c :
    IF key \in Keys(c.cache)
    THEN [c EXCEPT !.currentMemoryBytes = @ - c.cache[key].size,
                   !.cache = Del(@, key),
                   !.keyOrder = Without(@, key)]
    ELSE c)

LRUdelete(c0, key) == Once(c0, LAMBDA c :
    IF key \in Keys(c.cache)
    THEN [c EXCEPT !.currentMemoryBytes = @ - c.cache[key].size,
                   !.accessOrder = Without(@, key),
                   !.cache = Del(@, key),
                   !.keyOrder = Without(@, key)]
    ELSE c)

LRUclear(c) ==
    [c EXCEPT !.cache = EmptyObj, !.keyOrder = <<>>, !.accessOrder = <<>>,
              !.currentMemoryBytes = 0]

\* a sweep that also deletes the entries that are exactly maxAge old
RECURSIVE cleanupFromAtAge(_, _, _)
cleanupFromAtAge(c0, keys, t) == Once(c0, LAMBDA c :
    IF keys = <<>> THEN c
    ELSE LET key == Head(keys)
         IN IF key \in Keys(c.cache) /\ t - c.cache[key].accessTime >= LRU_MAX_AGE
            THEN cleanupFromAtAge(LRUdelete(c, key), Tail(keys), t)
            ELSE cleanupFromAtAge(c, Tail(keys), t))

\* cleanup walks cache.entries() and deletes the entries older than maxAge
RECURSIVE cleanupFrom(_, _, _)
cleanupFrom(c0, keys, t) == Once(c0, LAMBDA c :
    IF keys = <<>> THEN c
    ELSE LET key == Head(keys)
         IN IF key \in Keys(c.cache) /\ t - c.cache[key].accessTime > LRU_MAX_AGE
            THEN cleanupFrom(LRUdelete(c, key), Tail(keys), t)
            ELSE cleanupFrom(c, Tail(keys), t))
LRUcleanup(c, t) == cleanupFrom(c, c.keyOrder, t)

\* --------------------------------------------------------- the state
VARIABLES
    now,       \* Date.now()
    disk,      \* the table directory: shard index -> contents of the shard file
    fm,        \* the FileManager of the open table
    dm,        \* the DataManager of the open table
    ops,       \* the writes accepted so far: what each closure captured, and
               \* the state of the promise write() / save() returned for it
    finished,  \* the writeFile calls that have returned, in order: write, outcome
    opens,     \* how many times the table has been opened again
    closed,    \* the record map and the number of writes when it was last closed
    lru,       \* an LRUCache used on its own
    corrupt,   \* the shard files that cannot be read or decoded
    rd,        \* the read(id) of the shard store that is under way
    ret,       \* the last call of the facade that returned, and what it returned
    msdb,      \* a table of the earlier implementation (src/src/msdb.ts)
    tx         \* the call of transaction(operations) that is under way or returned

vars == <<now, disk, fm, dm, ops, finished, opens, closed, lru, corrupt, rd, ret, msdb, tx>>

\* no read under way; no call of the facade has returned yet
RdIdle == [stage |-> "idle", id |-> 0, files |-> <<>>, failed |-> FALSE,
           status |-> "none", result |-> Null]
RetNone == [n |-> 0, op |-> "none", id |-> 0, field |-> "", operation |-> "",
            result |-> FALSE, pending |-> {}, status |-> "none", data |-> EmptyObj]

\* initializeTable: tableData as loadTableData finds it in a new directory, the
\* write cache, the part files, the saveTableData calls under way, the number
\* of calls of save and remove, the id given to the last one and how it ended
MsdbNew == [tableData |-> EmptyObj, order |-> <<>>, cache |-> EmptyObj,
            cacheOrder |-> <<>>, parts |-> EmptyObj, flushes |-> <<>>, calls |-> 0, id |-> 0,
            returned |-> "none"]

\* no transaction has been called: the operations given, the place of the
\* next one, the save it awaits, and what it returned
TxNone == [operations |-> <<>>, pos |-> 0, awaiting |-> 0, status |-> "none",
           result |-> FALSE]

\* ---------------------------------------------------------- the disk
\* fs.promises.readFile + JSON.parse; any failure is logged and gives {}
readFileData(d, bad, file) ==
    IF file \in Keys(d) /\ file \notin bad THEN d[file] ELSE EmptyObj

\* fs.readdirSync(basePath).filter(startsWith(FILE_PREFIX)).sort()
RECURSIVE SortedFiles(_, _)
SortedFiles(d, from) ==
    IF from \notin Files THEN <<>>
    ELSE IF from \notin Keys(d) THEN SortedFiles(d, from + 1)
    ELSE <<from>> \o SortedFiles(d, from + 1)
readdirSync(d) == SortedFiles(d, 0)

\* ------------------------------------------------------- FileManager
FMNew(d) ==
    [currentFileIndex |-> 0,
     dataCache |-> LRUNew(DEFAULT_SIZE, DEFAULT_LIMIT_MB),
     writeQueue |-> <<>>, isWriting |-> FALSE,
     batch |-> {},           \* the operations Promise.all still waits for
     batchNo |-> 0,          \* batches started so far
     immediates |-> 0,       \* setImmediate callbacks not yet run
     indices |-> EmptyObj,   \* field -> (value -> set of ids)
     loadFiles |-> readdirSync(d),  \* files loadExistingFiles has yet to read
     inflight |-> EmptyObj]  \* writeFile calls not yet returned: op -> file, data

updateIndicesAdd(indices, id, data) ==
    [field \in Keys(indices) |->
        IF field \in DOMAIN data
        THEN LET value == data[field]
                 indexMap == indices[field]
                 old == IF value \in Keys(indexMap) THEN indexMap[value] ELSE {}
             IN Put(indexMap, value, old \cup {id})
        ELSE indices[field]]

\* a remove that leaves the entry of a value in the map when its set is empty
updateIndicesRemoveKeepEmpty(indices, id, data) ==
    [field \in Keys(indices) |->
        IF field \in DOMAIN data /\ data[field] \in Keys(indices[field])
        THEN Put(indices[field], data[field], indices[field][data[field]] \ {id})
        ELSE indices[field]]

updateIndicesRemove(indices, id, data) ==
    [field \in Keys(indices) |->
        IF field \in DOMAIN data /\ data[field] \in Keys(indices[field])
        THEN LET value == data[field]
                 idSet == indices[field][value] \ {id}
             IN IF idSet = {} THEN Del(indices[field], value)
                ELSE Put(indices[field], value, idSet)
        ELSE indices[field]]

updateIndices(indices, id, data, operation) ==
    IF operation = "add" THEN updateIndicesAdd(indices, id, data)
    ELSE updateIndicesRemove(indices, id, data)

RECURSIVE buildFrom(_, _, _)
buildFrom(indices, data, ids) ==
    IF ids = {} THEN indices
    ELSE LET id == CHOOSE x \in ids : \A y \in ids : x <= y
         IN buildFrom(updateIndices(indices, id, data[id].value, "add"),
                      data, ids \ {id})
buildIndicesFromData(indices, data) == buildFrom(indices, data, Keys(data))

\* a performWrite that starts every write from an empty map
currentDataFresh(cache, file) == EmptyObj

\* The shard map performWrite starts from: the cached copy of the current
\* shard, or {} when the cache does not hold it.
currentDataOf(cache, file) ==
    IF file \in Keys(cache.cache) THEN LRUgetValue(cache, file) ELSE EmptyObj

\* a performWrite that never moves to the next shard
performWriteNoRollover(m0, k, id, entry, t) == Once(m0, LAMBDA m :
    LET file == m.currentFileIndex
        cache0 == LRUgetTouch(m.dataCache, file, t)
        data1 == currentDataOf(m.dataCache, file)
        ind1 == IF id \in Keys(data1)
                THEN updateIndices(m.indices, id, data1[id].value, "remove")
                ELSE m.indices
        ind2 == updateIndices(ind1, id, entry.value, "add")
        data2 == Put(data1, id, entry)
    IN [m EXCEPT !.indices = ind2,
                 !.dataCache = LRUset(cache0, file, data2, t),
                 !.inflight = Put(@, k, [file |-> file, data |-> data2])])

\* performWrite up to its await: everything but the completion of writeFile.
performWrite(m0, k, id, entry, t) == Once(m0, LAMBDA m :
    LET file0 == m.currentFileIndex
        cache0 == LRUgetTouch(m.dataCache, file0, t)
        data0 == currentDataOf(m.dataCache, file0)
        full == Cardinality(Keys(data0)) >= MAX_ENTRIES_PER_FILE
        file == IF full THEN file0 + 1 ELSE file0
        data1 == IF full THEN EmptyObj ELSE data0
        ind1 == IF id \in Keys(data1)
                THEN updateIndices(m.indices, id, data1[id].value, "remove")
                ELSE m.indices
        ind2 == updateIndices(ind1, id, entry.value, "add")
        data2 == Put(data1, id, entry)
    IN [m EXCEPT !.currentFileIndex = file,
                 !.indices = ind2,
                 !.dataCache = LRUset(cache0, file, data2, t),
                 !.inflight = Put(@, k, [file |-> file, data |-> data2])])

\* batch.map(operation => operation()): each closure runs to its await in turn
RECURSIVE runBatch(_, _, _, _)
runBatch(m0, batch, o, t) == Once(m0, LAMBDA m :
    IF batch = <<>> THEN m
    ELSE LET k == Head(batch)
         IN runBatch(performWrite(m, k, o[k].id, Entry(o[k].id, o[k].value), t),
                     Tail(batch), o, t))

\* a drain that does not look at isWriting
processWriteQueueAnyTime(m0, o, t) == Once(m0, LAMBDA m :
    IF Len(m.writeQueue) = 0 THEN m
    ELSE LET batchSize == Min(BATCH_SIZE, Len(m.writeQueue))
             batch == SubSeq(m.writeQueue, 1, batchSize)
             m1 == [m EXCEPT !.isWriting = TRUE,
                             !.writeQueue = SubSeq(@, batchSize + 1, Len(@)),
                             !.batch = @ \cup {batch[i] : i \in 1..batchSize},
                             !.batchNo = @ + 1]
         IN runBatch(m1, batch, o, t))

processWriteQueue(m0, o, t) == Once(m0, LAMBDA m :
    IF m.isWriting \/ Len(m.writeQueue) = 0 THEN m
    ELSE LET batchSize == Min(BATCH_SIZE, Len(m.writeQueue))
             batch == SubSeq(m.writeQueue, 1, batchSize)
             m1 == [m EXCEPT !.isWriting = TRUE,
                             !.writeQueue = SubSeq(@, batchSize + 1, Len(@)),
                             !.batch = {batch[i] : i \in 1..batchSize},
                             !.batchNo = @ + 1]
         IN runBatch(m1, batch, o, t))

\* FileManager.write: queue the closure, start draining unless a drain runs
write(m, k, o, t) ==
    Once([m EXCEPT !.writeQueue = Append(@, k)], LAMBDA m1 :
        IF ~m1.isWriting THEN processWriteQueue(m1, o, t) ELSE m1)

\* a closure that resolves before it awaits performWrite
TrackResolveEarly(o0, m0) == Once(o0, LAMBDA o : Once(m0, LAMBDA m :
    [k \in DOMAIN o |->
        IF k \in Keys(m.inflight) /\ o[k].file = -1
        THEN [o[k] EXCEPT !.file = m.inflight[k].file, !.batch = m.batchNo,
                          !.wstatus = "resolved"]
        ELSE o[k]]))

\* ops follows fm: which shard and which batch a started write went to
Track(o0, m0) == Once(o0, LAMBDA o : Once(m0, LAMBDA m :
    [k \in DOMAIN o |->
        IF k \in Keys(m.inflight) /\ o[k].file = -1
        THEN [o[k] EXCEPT !.file = m.inflight[k].file, !.batch = m.batchNo]
        ELSE o[k]]))

NewOp(id, value, facade) ==
    [id |-> id, value |-> value, facade |-> facade,
     wstatus |-> IF facade THEN "none" ELSE "pending",
     sstatus |-> IF facade THEN "pending" ELSE "none",
     file |-> -1, batch |-> 0]

\* ------------------------------------------------------- DataManager
\* cache is the Map of the records and order the insertion order of its keys
\* (what cache.values() iterates)
DMNew == [cache |-> EmptyObj, order |-> <<>>, saveQueue |-> <<>>,
          isSaving |-> FALSE, awaiting |-> 0]

\* One turn of the loop of processSaveQueue: take the next closure and run it
\* to its await (fileManager.write), or leave the loop.
saveLoop(d, m, o, t) ==
    IF Len(d.saveQueue) > 0
    THEN LET k == Head(d.saveQueue)
             o1 == [o EXCEPT ![k].wstatus = "pending"]
         IN Once(write(m, k, o1, t), LAMBDA m1 :
                [dm |-> [d EXCEPT !.saveQueue = Tail(@), !.awaiting = k],
                 fm |-> m1, ops |-> Track(o1, m1)])
    ELSE [dm |-> [d EXCEPT !.isSaving = FALSE, !.awaiting = 0], fm |-> m, ops |-> o]

processSaveQueue(d, m, o, t) ==
    IF d.isSaving \/ Len(d.saveQueue) = 0 THEN [dm |-> d, fm |-> m, ops |-> o]
    ELSE saveLoop([d EXCEPT !.isSaving = TRUE], m, o, t)

\* save that leaves the record map to the persistence path
saveQueueOnly(d, m, o, id, value, t) ==
    LET d1 == [d EXCEPT !.saveQueue = Append(@, Len(o) + 1)]
        o1 == Append(o, NewOp(id, value, TRUE))
    IN IF ~d1.isSaving THEN processSaveQueue(d1, m, o1, t)
       ELSE [dm |-> d1, fm |-> m, ops |-> o1]

\* save that hands the write to the shard store at once, without the save queue
saveNoQueue(d, m, o, id, value, t) ==
    LET k == Len(o) + 1
        d1 == [d EXCEPT !.cache = Put(@, id, Entry(id, value)),
                        !.order = IF id \in Keys(d.cache) THEN @ ELSE Append(@, id)]
        o1 == Append(o, [NewOp(id, value, TRUE) EXCEPT !.wstatus = "pending"])
    IN Once(write(m, k, o1, t), LAMBDA m1 :
           [dm |-> d1, fm |-> m1, ops |-> Track(o1, m1)])

\* DataManager.save: the record map first, then the queue
save(d, m, o, id, value, t) ==
    LET k == Len(o) + 1
        d1 == [d EXCEPT !.cache = Put(@, id, Entry(id, value)),
                        !.order = IF id \in Keys(d.cache) THEN @ ELSE Append(@, id),
                        !.saveQueue = Append(@, k)]
        o1 == Append(o, NewOp(id, value, TRUE))
    IN IF ~d1.isSaving THEN processSaveQueue(d1, m, o1, t)
       ELSE [dm |-> d1, fm |-> m, ops |-> o1]

\* DataManager.get, the facade's find / findSync
get(d, id) == IF id \in Keys(d.cache) THEN d.cache[id] ELSE Null

\* DataManager.getAll: Array.from(cache.values())
getAll(d) == [i \in 1..Len(d.order) |-> d.cache[d.order[i]]]

\* a remove that also drops the saves still waiting in the save queue
removeCancel(d, id) ==
    [d EXCEPT !.cache = Del(@, id), !.order = Without(@, id), !.saveQueue = <<>>]

\* DataManager.remove: cache.delete(id)
remove(d, id) == [d EXCEPT !.cache = Del(@, id), !.order = Without(@, id)]

\* a remove that looks for the id after it has deleted it
tableRemoveThenLook(d, id) ==
    [dm |-> remove(d, id), result |-> get(remove(d, id), id) # Null]

\* the facade's remove: whether the id was there, then DataManager.remove
tableRemove(d, id) == [dm |-> remove(d, id), result |-> get(d, id) # Null]

\* { ...existing.value, ...updates }
Spread(a, b) ==
    [k \in DOMAIN a \cup DOMAIN b |-> IF k \in DOMAIN b THEN b[k] ELSE a[k]]

\* an update that saves its argument in place of the merged value
updateReplace(d, m, o, id, updates, t) ==
    IF get(d, id) # Null
    THEN save(d, m, o, id, updates, t)
    ELSE [dm |-> d, fm |-> m, ops |-> o]

\* the facade's update up to its await: save of the merged value when the id
\* is there, nothing otherwise
update(d, m, o, id, updates, t) ==
    IF get(d, id) # Null
    THEN save(d, m, o, id, Spread(get(d, id).value, updates), t)
    ELSE [dm |-> d, fm |-> m, ops |-> o]

\* the loop of transaction from operation x.pos on, up to the next await or
\* to return true: a remove, and an update of an id that is not there, do not
\* await
RECURSIVE transactionLoop(_, _, _, _, _)
transactionLoop(x, d, m, o, t) ==
    IF x.pos > Len(x.operations)
    THEN [tx |-> [x EXCEPT !.status = "returned", !.result = TRUE, !.awaiting = 0],
          dm |-> d, fm |-> m, ops |-> o]
    ELSE LET op == x.operations[x.pos]
             x1 == [x EXCEPT !.pos = @ + 1, !.awaiting = 0]
         IN IF op.type = "remove"
            THEN transactionLoop(x1, remove(d, op.id), m, o, t)
            ELSE IF op.type = "update" /\ get(d, op.id) = Null
                 THEN transactionLoop(x1, d, m, o, t)
                 ELSE LET data == IF op.type = "update"
                                  THEN Spread(get(d, op.id).value, op.data)
                                  ELSE op.data
                      IN Once(save(d, m, o, op.id, data, t), LAMBDA r :
                             [tx |-> [x1 EXCEPT !.awaiting = Len(o) + 1],
                              dm |-> r.dm, fm |-> r.fm, ops |-> r.ops])

\* transaction(operations) up to its first await or its return
transaction(operations, d, m, o, t) ==
    transactionLoop([TxNone EXCEPT !.operations = operations, !.pos = 1,
                                   !.status = "running"], d, m, o, t)

\* a transaction that goes on with the next operation when a save rejected
transactionResumeOn(x, d, m, o, t) == transactionLoop(x, d, m, o, t)

\* transaction after the save it awaited settled: the catch block returns
\* false when the save rejected, the loop goes on otherwise
transactionResume(x, d, m, o, t) ==
    IF o[x.awaiting].sstatus = "rejected"
    THEN [tx |-> [x EXCEPT !.status = "returned", !.result = FALSE, !.awaiting = 0],
          dm |-> d, fm |-> m, ops |-> o]
    ELSE transactionLoop(x, d, m, o, t)

\* a.id.localeCompare(b.id): ids are compared as the strings they stand for
localeCompare(a, b) == IF a < b THEN -1 ELSE IF a > b THEN 1 ELSE 0

\* a sort that leaves the array as it is
sortKeep(entries, order) == entries

\* entries.sort(comparator), the comparator chosen by options.order
RECURSIVE insertSorted(_, _, _)
insertSorted(sorted, e, order) ==
    IF sorted = <<>> THEN <<e>>
    ELSE LET c == IF order = "desc" THEN localeCompare(e.id, Head(sorted).id)
                  ELSE localeCompare(Head(sorted).id, e.id)
         IN IF c > 0 THEN <<e>> \o sorted
            ELSE <<Head(sorted)>> \o insertSorted(Tail(sorted), e, order)
RECURSIVE sortFrom(_, _, _)
sortFrom(sorted, entries, order) ==
    IF entries = <<>> THEN sorted
    ELSE sortFrom(insertSorted(sorted, Head(entries), order), Tail(entries), order)
sort(entries, order) == sortFrom(<<>>, entries, order)

\* the facade's getAll and getAllSync
getAllSync(d, options) ==
    IF options.orderBy # "" THEN sort(getAll(d), options.order) ELSE getAll(d)

\* JavaScript numbers as aggregate meets them: a quotient num / den of
\* integers, NaN, Infinity and -Infinity
Num(n) == [k |-> "number", num |-> n, den |-> 1]
NaN == [k |-> "NaN", num |-> 0, den |-> 0]
Infinity == [k |-> "Infinity", num |-> 1, den |-> 0]
MinusInfinity == [k |-> "-Infinity", num |-> -1, den |-> 0]

\* Number(v) for a JavaScript value v, given with its type: a number is
\* itself, null is 0, true is 1 and false 0, a string is the number it
\* spells ("" is 0) or NaN, undefined is NaN
Number(v) ==
    CASE v.t = "number" -> Num(v.n)
      [] v.t = "null" -> Num(0)
      [] v.t = "boolean" -> IF v.b THEN Num(1) ELSE Num(0)
      [] v.t = "string" -> (CASE v.s = "" -> Num(0)
                              [] v.s = "2" -> Num(2)
                              [] OTHER -> NaN)
      [] OTHER -> NaN

\* e.value[field]: undefined when the record has no such field
FieldOf(e, field) ==
    IF field \in DOMAIN e.value THEN e.value[field] ELSE [t |-> "undefined"]

isNaN(x) == x.k = "NaN"

\* a filter that keeps every value
filterAll(values) == values

\* values.filter(v => !isNaN(v))
filterNumbers(values) == SelectSeq(values, LAMBDA v : ~isNaN(v))

\* a + b of the reduce: NaN if either is, the sum of the integers otherwise
Plus(a, b) == IF isNaN(a) \/ isNaN(b) THEN NaN ELSE Num(a.num + b.num)

\* values.reduce((a, b) => a + b, 0)
RECURSIVE reduceSum(_, _)
reduceSum(acc, values) ==
    IF values = <<>> THEN acc ELSE reduceSum(Plus(acc, Head(values)), Tail(values))

\* Math.min(...values) and Math.max(...values): Infinity and -Infinity of no
\* argument, NaN if an argument is NaN
RECURSIVE MathMin(_)
MathMin(values) ==
    IF values = <<>> THEN Infinity
    ELSE LET rest == MathMin(Tail(values))
         IN IF isNaN(Head(values)) \/ isNaN(rest) THEN NaN
            ELSE IF rest.k = "Infinity" \/ Head(values).num < rest.num
                 THEN Head(values) ELSE rest
RECURSIVE MathMax(_)
MathMax(values) ==
    IF values = <<>> THEN MinusInfinity
    ELSE LET rest == MathMax(Tail(values))
         IN IF isNaN(Head(values)) \/ isNaN(rest) THEN NaN
            ELSE IF rest.k = "-Infinity" \/ Head(values).num > rest.num
                 THEN Head(values) ELSE rest

\* the fields and the operations aggregate is called with; median is none
\* of the operations it knows
AggregateFields == {"f", "g"}
Operations == {"sum", "avg", "min", "max", "count", "median"}

\* the facade's aggregate
aggregate(d, field, operation) ==
    LET entries == getAll(d)
        values == filterNumbers([i \in 1..Len(entries) |->
                                    Number(FieldOf(entries[i], field))])
        total == reduceSum(Num(0), values)
    IN CASE operation = "sum" -> total
         [] operation = "avg" ->
              IF Len(values) > 0
              THEN (IF isNaN(total) THEN NaN
                    ELSE [k |-> "number", num |-> total.num, den |-> Len(values)])
              ELSE Num(0)
         [] operation = "min" -> MathMin(values)
         [] operation = "max" -> MathMax(values)
         [] operation = "count" -> Num(Len(values))
         [] OTHER -> Num(0)

\* rebuildIndex: the index of field over the shards the cache holds
\* a rebuild that leaves the new index empty
rebuildIndexEmpty(m, field) == EmptyObj

rebuildIndex(m, field) ==
    LET c == m.dataCache.cache
        has(id, x) == \E key \in Keys(c) :
                          /\ id \in Keys(c[key].value)
                          /\ field \in DOMAIN c[key].value[id].value
                          /\ c[key].value[id].value[field] = x
        vals == {x \in 1..MaxVal : \E id \in Ids : has(id, x)}
    IN [x \in vals |-> {id \in Ids : has(id, x)}]

createIndex(m, field) ==
    IF field \notin Keys(m.indices)
    THEN [m EXCEPT !.indices = Put(@, field, rebuildIndex(m, field))]
    ELSE m

dropIndex(m, field) == [m EXCEPT !.indices = Del(@, field)]

\* getByIndex: one result per id the index holds under value
getByIndex(m, field, value) ==
    IF field \notin Keys(m.indices) THEN {}
    ELSE IF value \notin Keys(m.indices[field]) THEN {}
    ELSE m.indices[field][value]

\* a load that stops at the first shard file it cannot decode
loadFileAbort(m, d, bad, t) ==
    IF Head(m.loadFiles) \in bad THEN [m EXCEPT !.loadFiles = <<>>]
    ELSE LET file == Head(m.loadFiles)
             data == readFileData(d, bad, file)
         IN [m EXCEPT !.loadFiles = Tail(@),
                      !.dataCache = LRUset(@, file, data, t),
                      !.currentFileIndex = Max(@, file),
                      !.indices = buildIndicesFromData(@, data)]

\* String(currentFileIndex).padStart(5, '0'): the decimal digits of the index,
\* with zeros in front up to five digits
RECURSIVE digitsOf(_)
digitsOf(n) == IF n < 10 THEN <<n>> ELSE Append(digitsOf(n \div 10), n % 10)
paddedIndex(index) ==
    LET ds == digitsOf(index)
    IN [k \in 1..(5 - Len(ds)) |-> 0] \o ds

\* parseInt of a string of decimal digits
RECURSIVE parseInt(_)
parseInt(ds) ==
    IF ds = <<>> THEN 0
    ELSE 10 * parseInt(SubSeq(ds, 1, Len(ds) - 1)) + ds[Len(ds)]

\* a load that leaves the index where the constructor put it
loadFileKeepIndex(m, d, bad, t) ==
    LET file == Head(m.loadFiles)
        data == readFileData(d, bad, file)
    IN [m EXCEPT !.loadFiles = Tail(@),
                 !.dataCache = LRUset(@, file, data, t),
                 !.indices = buildIndicesFromData(@, data)]

\* One turn of the loop of loadExistingFiles, after its await; the shard
\* file of index i has the name data.<paddedIndex(i)>.json
loadFile(m, d, bad, t) ==
    LET file == Head(m.loadFiles)
        data == readFileData(d, bad, file)
        fileIndex == parseInt(paddedIndex(file))
    IN [m EXCEPT !.loadFiles = Tail(@),
                 !.dataCache = LRUset(@, file, data, t),
                 !.currentFileIndex = Max(@, fileIndex),
                 !.indices = buildIndicesFromData(@, data)]

\* read, its first half: the scan of the cached shards in the order of
\* cache.entries(); the entry found, or null
RECURSIVE readCached(_, _, _)
readCached(c, keys, id) ==
    IF keys = <<>> THEN Null
    ELSE IF id \in Keys(c.cache[Head(keys)].value)
         THEN c.cache[Head(keys)].value[id]
         ELSE readCached(c, Tail(keys), id)

\* the state of a read that has returned result
RdDone(r, result) == [r EXCEPT !.stage = "done", !.files = <<>>,
                               !.status = "resolved", !.result = result]

\* read(id) up to its first await: the cache scan, then readFromDisk up to
\* fs.promises.readdir
read(m, id) ==
    LET hit == readCached(m.dataCache, m.dataCache.keyOrder, id)
        r == [RdIdle EXCEPT !.id = id]
    IN IF hit # Null THEN RdDone(r, hit)
       ELSE [r EXCEPT !.stage = "readdir", !.status = "pending"]

\* readFromDisk after readdir returned the names (ok) or threw: the catch
\* block logs the error and null is returned
readdirDone(r, d, ok) ==
    IF ~ok THEN RdDone([r EXCEPT !.failed = TRUE], Null)
    ELSE IF Keys(d) = {} THEN RdDone(r, Null)
    ELSE [r EXCEPT !.stage = "file", !.files = readdirSync(d)]

\* one turn of the loop of readFromDisk, after its await of readFileData
readFromDisk(r, m, d, bad, t) ==
    LET file == Head(r.files)
        data == readFileData(d, bad, file)
        r1 == [r EXCEPT !.failed = @ \/ file \in bad \/ file \notin Keys(d)]
    IN IF r.id \in Keys(data)
       THEN [rd |-> RdDone(r1, data[r.id]),
             fm |-> [m EXCEPT !.dataCache = LRUset(@, file, data, t)]]
       ELSE IF Len(r.files) = 1
            THEN [rd |-> RdDone(r1, Null), fm |-> m]
            ELSE [rd |-> [r1 EXCEPT !.files = Tail(@)], fm |-> m]

\* ------------------------------------------------------------ actions
Settled == {"resolved", "rejected"}
Outcome(ok) == IF ok THEN "resolved" ELSE "rejected"

\* the user calls table.save(id, data)
Save ==
    \E id \in Ids, value \in Values :
        /\ Len(ops) < MaxOps
        /\ \E r \in {save(dm, fm, ops, id, value, now)} :
               dm' = r.dm /\ fm' = r.fm /\ ops' = r.ops
        /\ UNCHANGED <<now, disk, finished, opens, closed, lru, corrupt, rd, ret, msdb, tx>>

\* a caller of the shard store calls write(id, entry)
Write ==
    \E id \in Ids, value \in Values :
        /\ Len(ops) < MaxOps
        /\ \E o1 \in {Append(ops, NewOp(id, value, FALSE))} :
           \E m1 \in {write(fm, Len(o1), o1, now)} :
               fm' = m1 /\ ops' = Track(o1, m1)
        /\ UNCHANGED <<now, disk, dm, finished, opens, closed, lru, corrupt, rd, ret, msdb, tx>>

\* fs.promises.writeFile returns for write k: the file holds the data it was
\* given, or the call failed; performWrite ends and the closure settles the
\* promise of write k
\* a failure that rejects every write the batch still waits for
writeFileDoneRejectBatch(k, ok) ==
    /\ disk' = IF ok THEN Put(disk, fm.inflight[k].file, fm.inflight[k].data)
               ELSE disk
    /\ fm' = [fm EXCEPT !.inflight = Del(@, k), !.batch = @ \ {k}]
    /\ ops' = [j \in DOMAIN ops |->
                 IF j = k \/ (~ok /\ j \in fm.batch)
                 THEN [ops[j] EXCEPT !.wstatus = Outcome(ok)]
                 ELSE ops[j]]
    /\ finished' = Append(finished, [op |-> k, ok |-> ok])
    /\ corrupt' = IF ok THEN corrupt \ {fm.inflight[k].file} ELSE corrupt

\* a failure that takes the record out of the cached shard again
writeFileDoneRollback(k, ok) ==
    /\ disk' = IF ok THEN Put(disk, fm.inflight[k].file, fm.inflight[k].data)
               ELSE disk
    /\ fm' = [fm EXCEPT
                 !.inflight = Del(@, k),
                 !.batch = @ \ {k},
                 !.dataCache.cache =
                     IF ~ok /\ fm.inflight[k].file \in Keys(@)
                     THEN [@ EXCEPT ![fm.inflight[k].file].value =
                              [id \in Keys(@) \ {ops[k].id} |-> @[id]]]
                     ELSE @]
    /\ ops' = [ops EXCEPT ![k].wstatus = Outcome(ok)]
    /\ finished' = Append(finished, [op |-> k, ok |-> ok])
    /\ corrupt' = IF ok THEN corrupt \ {fm.inflight[k].file} ELSE corrupt

writeFileDone(k, ok) ==
    /\ disk' = IF ok THEN Put(disk, fm.inflight[k].file, fm.inflight[k].data)
               ELSE disk
    /\ fm' = [fm EXCEPT !.inflight = Del(@, k), !.batch = @ \ {k}]
    /\ ops' = [ops EXCEPT ![k].wstatus = Outcome(ok)]
    /\ finished' = Append(finished, [op |-> k, ok |-> ok])
    /\ corrupt' = IF ok THEN corrupt \ {fm.inflight[k].file} ELSE corrupt

WriteFileDone ==
    \E k \in Keys(fm.inflight), ok \in BOOLEAN :
        /\ writeFileDone(k, ok)
        /\ UNCHANGED <<now, dm, opens, closed, lru, rd, ret, msdb, tx>>

\* a finally block that leaves the rest of the queue to the next write()
FinallyNoImmediate ==
    /\ fm.isWriting /\ fm.batch = {}
    /\ fm' = [fm EXCEPT !.isWriting = FALSE]
    /\ UNCHANGED <<now, disk, dm, ops, finished, opens, closed, lru, corrupt, rd, ret, msdb, tx>>

\* Promise.all of the batch is fulfilled: the finally block of processWriteQueue
Finally ==
    /\ fm.isWriting /\ fm.batch = {}
    /\ fm' = [fm EXCEPT !.isWriting = FALSE,
                        !.immediates = IF Len(fm.writeQueue) > 0 THEN @ + 1 ELSE @]
    /\ UNCHANGED <<now, disk, dm, ops, finished, opens, closed, lru, corrupt, rd, ret, msdb, tx>>

\* the callback given to setImmediate
Immediate ==
    /\ fm.immediates > 0
    /\ \E m1 \in {processWriteQueue([fm EXCEPT !.immediates = @ - 1], ops, now)} :
           fm' = m1 /\ ops' = Track(ops, m1)
    /\ UNCHANGED <<now, disk, dm, finished, opens, closed, lru, corrupt, rd, ret, msdb, tx>>

\* the callback of setupPeriodicSave
PeriodicSave ==
    /\ \E m1 \in {processWriteQueue(fm, ops, now)} :
           fm' = m1 /\ ops' = Track(ops, m1)
    /\ UNCHANGED <<now, disk, dm, finished, opens, closed, lru, corrupt, rd, ret, msdb, tx>>

\* the closure of save resumes after fileManager.write settled: it settles
\* the promise of save, and processSaveQueue goes on with its loop
SaveResume ==
    /\ dm.awaiting # 0
    /\ ops[dm.awaiting].wstatus \in Settled
    /\ \E k \in {dm.awaiting} :
       \E r \in {saveLoop(dm, fm, [ops EXCEPT ![k].sstatus = ops[k].wstatus], now)} :
           dm' = r.dm /\ fm' = r.fm /\ ops' = r.ops
    /\ UNCHANGED <<now, disk, finished, opens, closed, lru, corrupt, rd, ret, msdb, tx>>

Tick ==
    /\ now < MaxTime
    /\ now' = now + 1
    /\ UNCHANGED <<disk, fm, dm, ops, finished, opens, closed, lru, corrupt, rd, ret, msdb, tx>>

\* the callback of startCleanupTimer of the shard cache
Cleanup ==
    /\ fm' = [fm EXCEPT !.dataCache = LRUcleanup(@, now)]
    /\ UNCHANGED <<now, disk, dm, ops, finished, opens, closed, lru, corrupt, rd, ret, msdb, tx>>

LoadStep ==
    /\ Len(fm.loadFiles) > 0
    /\ fm' = loadFile(fm, disk, corrupt, now)
    /\ UNCHANGED <<now, disk, dm, ops, finished, opens, closed, lru, corrupt, rd, ret, msdb, tx>>

Quiet ==
    /\ Keys(fm.inflight) = {} /\ ~fm.isWriting /\ Len(fm.writeQueue) = 0
    /\ fm.immediates = 0 /\ Len(fm.loadFiles) = 0
    /\ ~dm.isSaving /\ Len(dm.saveQueue) = 0

\* the table is closed with nothing pending and createTable opens it again:
\* new DataManager(basePath), which builds a new FileManager
Reopen ==
    /\ Quiet
    /\ opens < MaxOpens
    /\ opens' = opens + 1
    /\ closed' = [cache |-> dm.cache, nops |-> Len(ops)]
    /\ dm' = DMNew
    /\ fm' = FMNew(disk)
    /\ UNCHANGED <<now, disk, ops, finished, lru, corrupt, rd, ret, msdb, tx>>

\* the user calls table.update(id, updates)
Update ==
    \E id \in Ids, updates \in {EmptyObj} \cup Values :
        /\ Len(ops) < MaxOps
        /\ \E r \in {update(dm, fm, ops, id, updates, now)} :
               dm' = r.dm /\ fm' = r.fm /\ ops' = r.ops
        /\ UNCHANGED <<now, disk, finished, opens, closed, lru, corrupt, rd, ret, msdb, tx>>

\* the user calls table.update(id, updates); ret keeps the call, the save it
\* awaits, and false as its result when the id is not there
TableUpdate ==
    \E id \in Ids, updates \in {EmptyObj} \cup Values :
        /\ Len(ops) < MaxOps
        /\ ret.n < MaxCalls
        /\ \E r \in {update(dm, fm, ops, id, updates, now)} :
               dm' = r.dm /\ fm' = r.fm /\ ops' = r.ops
        /\ ret' = [RetNone EXCEPT
               !.n = ret.n + 1, !.op = "update", !.id = id, !.data = updates,
               !.status = IF get(dm, id) # Null THEN "awaiting" ELSE "returned",
               !.pending = IF get(dm, id) # Null THEN {Len(ops) + 1} ELSE {}]
        /\ UNCHANGED <<now, disk, finished, opens, closed, lru, corrupt, rd, msdb, tx>>

\* the save that update awaits has settled: return true, or the rejection
\* goes on to the caller
TableUpdateResume ==
    /\ ret.op = "update" /\ ret.status = "awaiting"
    /\ \E k \in ret.pending :
           /\ ops[k].sstatus # "pending"
           /\ ret' = [ret EXCEPT
                  !.status = IF ops[k].sstatus = "resolved" THEN "returned" ELSE "threw",
                  !.result = (ops[k].sstatus = "resolved")]
    /\ UNCHANGED <<now, disk, fm, dm, ops, finished, opens, closed, lru, corrupt, rd, msdb, tx>>

\* the user calls table.remove(id); ret keeps what it returned and which
\* saves were pending when it was called
Remove ==
    \E id \in Ids :
        /\ ret.n < MaxCalls
        /\ \E r \in {tableRemove(dm, id)} :
               /\ dm' = r.dm
               /\ ret' = [RetNone EXCEPT
                      !.n = ret.n + 1, !.op = "remove", !.id = id,
                      !.result = r.result,
                      !.pending = {k \in 1..Len(ops) : ops[k].sstatus = "pending"}]
        /\ UNCHANGED <<now, disk, fm, ops, finished, opens, closed, lru, corrupt, rd, msdb, tx>>

\* the user calls table.aggregate(field, operation)
Aggregate ==
    \E field \in AggregateFields, operation \in Operations :
        /\ ret' = [RetNone EXCEPT !.n = 1, !.op = "aggregate", !.field = field,
                                  !.operation = operation,
                                  !.result = aggregate(dm, field, operation)]
        /\ UNCHANGED <<now, disk, fm, dm, ops, finished, opens, closed, lru, corrupt, rd, msdb, tx>>

\* a caller of the shard store calls read(id)
Read ==
    \E id \in Ids :
        /\ rd.stage \in {"idle", "done"}
        /\ rd' = read(fm, id)
        /\ UNCHANGED <<now, disk, fm, dm, ops, finished, opens, closed, lru, corrupt, ret, msdb, tx>>

\* fs.promises.readdir returns, or fails
ReaddirDone ==
    \E ok \in BOOLEAN :
        /\ rd.stage = "readdir"
        /\ rd' = readdirDone(rd, disk, ok)
        /\ UNCHANGED <<now, disk, fm, dm, ops, finished, opens, closed, lru, corrupt, ret, msdb, tx>>

\* readFileData returns for the next file of the loop of readFromDisk
ReadFileDone ==
    /\ rd.stage = "file"
    /\ \E r \in {readFromDisk(rd, fm, disk, corrupt, now)} :
           rd' = r.rd /\ fm' = r.fm
    /\ UNCHANGED <<now, disk, dm, ops, finished, opens, closed, lru, corrupt, ret, msdb, tx>>

CreateIndex ==
    \E field \in Fields :
        /\ fm' = createIndex(fm, field)
        /\ UNCHANGED <<now, disk, dm, ops, finished, opens, closed, lru, corrupt, rd, ret, msdb, tx>>

DropIndex ==
    \E field \in Fields :
        /\ fm' = dropIndex(fm, field)
        /\ UNCHANGED <<now, disk, dm, ops, finished, opens, closed, lru, corrupt, rd, ret, msdb, tx>>

\* ------------------------------------- the earlier table (src/src/msdb.ts)
\* Object.entries(tableData): the entries in the order of the keys
entries(t) == [k \in 1..Len(t.order) |-> t.tableData[t.order[k]]]

\* Object.fromEntries(entries.slice(i, i + CONFIG.PART_SIZE))
chunk(es, i) ==
    LET ks == {k \in 1..Len(es) : i < k /\ k <= i + PART_SIZE}
    IN [id \in {es[k].id : k \in ks} |-> CHOOSE e \in {es[k] : k \in ks} : e.id = id]

\* saveTableData up to its first await: the entries are taken, and the write
\* of the first chunk is started unless there is no entry
saveTableData(t) ==
    IF Len(t.order) = 0 THEN t
    ELSE [t EXCEPT !.flushes = Append(@, [entries |-> entries(t), i |-> 0])]

\* a saveEntry that flushes only when the cache is exactly at the limit
saveEntryAtLimit(t, id, data, logs) ==
    LET entry == Entry(id, data)
        t1 == [t EXCEPT !.tableData = Put(@, id, entry),
                        !.order = IF id \in Keys(t.tableData) THEN @ ELSE Append(@, id),
                        !.cache = Put(@, id, entry),
                        !.cacheOrder = IF id \in Keys(t.cache) THEN @ ELSE Append(@, id),
                        !.calls = @ + 1,
                        !.id = id]
    IN IF ~logs THEN [t1 EXCEPT !.returned = "threw"]
       ELSE IF Cardinality(Keys(t1.cache)) = CACHE_LIMIT
            THEN [saveTableData(t1) EXCEPT !.cache = EmptyObj, !.cacheOrder = <<>>,
                                           !.returned = "returned"]
            ELSE [t1 EXCEPT !.returned = "returned"]

\* saveEntry(id, data); logs is FALSE when the logDebug after cache.set throws
\* (appendFileSync fails), which saveEntry rethrows
saveEntry(t, id, data, logs) ==
    LET entry == Entry(id, data)
        t1 == [t EXCEPT !.tableData = Put(@, id, entry),
                        !.order = IF id \in Keys(t.tableData) THEN @ ELSE Append(@, id),
                        !.cache = Put(@, id, entry),
                        !.cacheOrder = IF id \in Keys(t.cache) THEN @ ELSE Append(@, id),
                        !.calls = @ + 1,
                        !.id = id]
    IN IF ~logs THEN [t1 EXCEPT !.returned = "threw"]
       ELSE IF Cardinality(Keys(t1.cache)) >= CACHE_LIMIT
            THEN [saveTableData(t1) EXCEPT !.cache = EmptyObj, !.cacheOrder = <<>>,
                                           !.returned = "returned"]
            ELSE [t1 EXCEPT !.returned = "returned"]

\* removeEntry(id): the write cache is left as it is
removeEntry(t, id) ==
    IF id \notin Keys(t.tableData)
    THEN [t EXCEPT !.calls = @ + 1, !.id = id, !.returned = "removed"]
    ELSE saveTableData([t EXCEPT !.tableData = Del(@, id),
                                 !.order = Without(@, id),
                                 !.calls = @ + 1,
                                 !.id = id,
                                 !.returned = "removed"])

\* [...cache.values()]: the write cache in the order the keys were set
cacheValues(t) == [k \in 1..Len(t.cacheOrder) |-> t.cache[t.cacheOrder[k]]]

\* getEntry(id): the write cache first, then the table data
getEntry(t, id) ==
    IF id \in Keys(t.cache) THEN t.cache[id]
    ELSE IF id \in Keys(t.tableData) THEN t.tableData[id]
    ELSE Null

\* getAllEntries(orderBy): the values of the write cache, then those of the
\* table data, sorted by id
getAllEntries(t, orderBy) == sort(cacheValues(t) \o entries(t), orderBy)

\* getWhere(condition): the same list, kept where every key of condition has
\* the value of condition
getWhere(t, condition) ==
    SelectSeq(cacheValues(t) \o entries(t),
              LAMBDA entry : \A key \in DOMAIN condition :
                  key \in DOMAIN entry.value /\ entry.value[key] = condition[key])

\* getRandomEntry(): r is Math.floor(Math.random() * allEntries.length) + 1
getRandomEntry(t, r) ==
    LET allEntries == t.cacheOrder \o t.order
    IN IF Len(allEntries) = 0 THEN Null
       ELSE IF allEntries[r] \in Keys(t.cache) THEN t.cache[allEntries[r]]
       ELSE t.tableData[allEntries[r]]

\* the n-th element of a sequence taken out
RemoveAt(seq, n) == [k \in 1..(Len(seq) - 1) |-> IF k < n THEN seq[k] ELSE seq[k + 1]]

\* fs.promises.writeFile of saveTableData call n returns: the part file holds
\* the chunk and the loop goes on with the next chunk, or the call fails and
\* saveTableData rethrows
partWritten(t, n, ok) ==
    LET fl == t.flushes[n]
        next == fl.i + PART_SIZE
    IN IF ~ok THEN [t EXCEPT !.flushes = RemoveAt(@, n)]
       ELSE [t EXCEPT !.parts = Put(@, fl.i \div PART_SIZE, chunk(fl.entries, fl.i)),
                      !.flushes = IF next < Len(fl.entries)
                                  THEN [@ EXCEPT ![n].i = next]
                                  ELSE RemoveAt(@, n)]

SaveEntry ==
    \E id \in Ids, data \in Values, logs \in BOOLEAN :
        /\ msdb.calls < MaxSaves
        /\ msdb' = saveEntry(msdb, id, data, logs)
        /\ UNCHANGED <<now, disk, fm, dm, ops, finished, opens, closed, lru, corrupt, rd, ret, tx>>

RemoveEntry ==
    \E id \in Ids :
        /\ msdb.calls < MaxSaves
        /\ msdb' = removeEntry(msdb, id)
        /\ UNCHANGED <<now, disk, fm, dm, ops, finished, opens, closed, lru, corrupt, rd, ret, tx>>

PartWritten ==
    \E n \in 1..Len(msdb.flushes), ok \in BOOLEAN :
        /\ msdb' = partWritten(msdb, n, ok)
        /\ UNCHANGED <<now, disk, fm, dm, ops, finished, opens, closed, lru, corrupt, rd, ret, tx>>

NextMsdb ==
    \/ SaveEntry
    \/ RemoveEntry
    \/ PartWritten

\* the user calls table.transaction(operations)
TxOperations ==
    {[type |-> "save", id |-> id, data |-> data] : id \in Ids, data \in Values}
        \cup {[type |-> "remove", id |-> id] : id \in Ids}
        \cup {[type |-> "update", id |-> id, data |-> data] : id \in Ids, data \in Values}

Transaction ==
    \E operations \in UNION {[1..n -> TxOperations] : n \in 0..MaxTx} :
        /\ tx.status = "none"
        /\ \E r \in {transaction(operations, dm, fm, ops, now)} :
               tx' = r.tx /\ dm' = r.dm /\ fm' = r.fm /\ ops' = r.ops
        /\ UNCHANGED <<now, disk, finished, opens, closed, lru, corrupt, rd, ret, msdb>>

\* the save that transaction awaits has settled and transaction goes on
TransactionResume ==
    /\ tx.status = "running"
    /\ tx.awaiting # 0
    /\ ops[tx.awaiting].sstatus \in Settled
    /\ \E r \in {transactionResume(tx, dm, fm, ops, now)} :
           tx' = r.tx /\ dm' = r.dm /\ fm' = r.fm /\ ops' = r.ops
    /\ UNCHANGED <<now, disk, finished, opens, closed, lru, corrupt, rd, ret, msdb>>

\* ------------------------------------------------------ specifications
Init ==
    /\ now = 0
    /\ disk = EmptyObj
    /\ fm = FMNew(EmptyObj)
    /\ dm = DMNew
    /\ ops = <<>>
    /\ finished = <<>>
    /\ opens = 0
    /\ closed = [cache |-> EmptyObj, nops |-> 0]
    /\ lru = LRUNew(DEFAULT_SIZE, DEFAULT_LIMIT_MB)
    /\ corrupt = {}
    /\ rd = RdIdle
    /\ ret = RetNone
    /\ msdb = MsdbNew
    /\ tx = TxNone

\* the table as createTable hands it out: every write enters through save
Next ==
    \/ Save
    \/ WriteFileDone
    \/ Finally
    \/ Immediate
    \/ PeriodicSave
    \/ SaveResume
    \/ Tick
    \/ Cleanup
    \/ LoadStep
    \/ Reopen

Spec == Init /\ [][Next]_vars

\* the table of the earlier implementation, in a new directory
SpecMsdb == Init /\ [][NextMsdb]_vars

\* the shard store driven by its own callers
NextStore ==
    \/ Write
    \/ WriteFileDone
    \/ Finally
    \/ Immediate
    \/ PeriodicSave
    \/ Tick
    \/ Cleanup
    \/ CreateIndex
    \/ DropIndex

SpecStore == Init /\ [][NextStore]_vars

\* saves through the facade on a shard store whose caller creates indices
NextFail ==
    \/ Save
    \/ WriteFileDone
    \/ Finally
    \/ Immediate
    \/ SaveResume
    \/ CreateIndex

SpecFail == Init /\ [][NextFail]_vars

\* saves and one update through the facade
NextUpdate ==
    \/ Save
    \/ TableUpdate
    \/ TableUpdateResume
    \/ WriteFileDone
    \/ Finally
    \/ Immediate
    \/ SaveResume

SpecUpdate == Init /\ [][NextUpdate]_vars

\* one transaction on a new table, with the queue callbacks behind its saves
NextTransaction ==
    \/ Transaction
    \/ TransactionResume
    \/ WriteFileDone
    \/ Finally
    \/ Immediate
    \/ SaveResume

SpecTransaction == Init /\ [][NextTransaction]_vars

\* the shard store written and read by its callers
NextReadWrite ==
    \/ Write
    \/ WriteFileDone
    \/ Finally
    \/ Immediate
    \/ Read
    \/ ReaddirDone
    \/ ReadFileDone

SpecReadWrite == Init /\ [][NextReadWrite]_vars

\* the two queues: the shard store with the table facade and other callers
\* writing to it
NextQueue ==
    \/ Save
    \/ Write
    \/ WriteFileDone
    \/ Finally
    \/ Immediate
    \/ PeriodicSave
    \/ SaveResume

SpecQueue == Init /\ [][NextQueue]_vars

\* Every callback that is due runs: a disk call returns or fails, a promise
\* continuation and a setImmediate callback are run by the event loop.
FairQueue ==
    /\ WF_vars(WriteFileDone)
    /\ WF_vars(Finally)
    /\ WF_vars(Immediate)
    /\ WF_vars(SaveResume)

FairSpecQueue == SpecQueue /\ FairQueue

\* the table facade: save, update and remove, and the two queues behind them
NextTable ==
    \/ Save
    \/ Update
    \/ Remove
    \/ WriteFileDone
    \/ Finally
    \/ Immediate
    \/ PeriodicSave
    \/ SaveResume

SpecTable == Init /\ [][NextTable]_vars

\* saves and removes alone, every callback that is due being run
NextRemove ==
    \/ Save
    \/ Remove
    \/ WriteFileDone
    \/ Finally
    \/ Immediate
    \/ SaveResume

FairSpecRemove == Init /\ [][NextRemove]_vars /\ FairQueue

\* a table opened on a directory that earlier runs have written, some of
\* its shard files damaged since; the shard store loads it and is read
Shards == UNION {[S -> Values] :
                    S \in {T \in SUBSET Ids : Cardinality(T) \in 1..MAX_ENTRIES_PER_FILE}}
ShardFiles == {[id \in DOMAIN data |-> Entry(id, data[id])] : data \in Shards}
Directories == UNION {[0..(n - 1) -> ShardFiles] : n \in 0..MaxFiles}

InitDisk ==
    /\ now = 0
    /\ disk \in Directories
    /\ corrupt \in SUBSET Keys(disk)
    /\ fm = FMNew(disk)
    /\ dm = DMNew
    /\ ops = <<>>
    /\ finished = <<>>
    /\ opens = 0
    /\ closed = [cache |-> EmptyObj, nops |-> 0]
    /\ lru = LRUNew(DEFAULT_SIZE, DEFAULT_LIMIT_MB)
    /\ rd = RdIdle
    /\ ret = RetNone
    /\ msdb = MsdbNew
    /\ tx = TxNone

NextDisk ==
    \/ LoadStep
    \/ Read
    \/ ReaddirDone
    \/ ReadFileDone

SpecDisk == InitDisk /\ [][NextDisk]_vars

\* the same table read while the clock runs and the age sweep of the shard
\* cache comes round
NextRead ==
    \/ LoadStep
    \/ Read
    \/ ReaddirDone
    \/ ReadFileDone
    \/ Tick
    \/ Cleanup

SpecRead == InitDisk /\ [][NextRead]_vars

\* a table opened on a directory that an earlier run has filled shard after
\* shard, every record with f = 1: every shard but the last is full and no id
\* is in two shards.  The constructor of FileManager returns while
\* loadExistingFiles is at its first await, so saves interleave with the load.
OpenDirectories ==
    {d \in Directories :
        /\ \A i \in Keys(d) : \A id \in Keys(d[i]) : d[i][id].value.f = 1
        /\ \A i \in Keys(d) :
               i + 1 \in Keys(d) => Cardinality(Keys(d[i])) = MAX_ENTRIES_PER_FILE
        /\ \A i, j \in Keys(d) : i # j => Keys(d[i]) \cap Keys(d[j]) = {}}

\* the records of a directory: what the run that wrote it had in its map
recordsOf(d) ==
    [id \in UNION {Keys(d[file]) : file \in Keys(d)} |->
        LET file == CHOOSE f \in Keys(d) : id \in Keys(d[f]) IN d[file][id]]

InitOpen ==
    /\ now = 0
    /\ disk \in OpenDirectories
    /\ corrupt = {}
    /\ fm = FMNew(disk)
    /\ dm = DMNew
    /\ ops = <<>>
    /\ finished = <<>>
    /\ opens = 0
    /\ closed = [cache |-> recordsOf(disk), nops |-> 0]
    /\ lru = LRUNew(DEFAULT_SIZE, DEFAULT_LIMIT_MB)
    /\ rd = RdIdle
    /\ ret = RetNone
    /\ msdb = MsdbNew
    /\ tx = TxNone

NextOpen ==
    \/ LoadStep
    \/ Save
    \/ WriteFileDone
    \/ Finally
    \/ Immediate
    \/ SaveResume

SpecOpen == InitOpen /\ [][NextOpen]_vars

\* aggregate over the record map of a table.  Here the value of field f of a
\* record is a JavaScript value given with its type; no record has field g.
JsValues ==
    {[t |-> "number", n |-> n] : n \in -1..2}
        \cup {[t |-> "string", s |-> x] : x \in {"", "2", "abc"}}
        \cup {[t |-> "boolean", b |-> TRUE], [t |-> "null"]}
Orders == {order \in UNION {[1..n -> Ids] : n \in 0..MaxRecords} :
              \A i, j \in 1..Len(order) : i # j => order[i] # order[j]}
Tables ==
    UNION {{[DMNew EXCEPT !.order = order,
                          !.cache = [id \in DOMAIN data |-> Entry(id, [f |-> data[id]])]] :
               data \in [{order[i] : i \in 1..Len(order)} -> JsValues]} :
           order \in Orders}

InitAggregate ==
    /\ now = 0
    /\ disk = EmptyObj
    /\ corrupt = {}
    /\ fm = FMNew(EmptyObj)
    /\ dm \in Tables
    /\ ops = <<>>
    /\ finished = <<>>
    /\ opens = 0
    /\ closed = [cache |-> EmptyObj, nops |-> 0]
    /\ lru = LRUNew(DEFAULT_SIZE, DEFAULT_LIMIT_MB)
    /\ rd = RdIdle
    /\ ret = RetNone
    /\ msdb = MsdbNew
    /\ tx = TxNone

SpecAggregate == InitAggregate /\ [][Aggregate]_vars

\* an LRUCache on its own, under any sequence of its operations
LruValues == {[id \in 1..n |-> Entry(id, [f |-> 1])] : n \in 0..MaxIds}
LruConfigs == {LRUNew(maxSize, maxMemoryMB) :
                  maxSize \in 1..DEFAULT_SIZE,
                  maxMemoryMB \in {DEFAULT_LIMIT_MB \div 2, DEFAULT_LIMIT_MB}}

LruSet ==
    \E key \in Files, value \in LruValues :
        /\ lru' = LRUset(lru, key, value, now)
        /\ UNCHANGED <<now, disk, fm, dm, ops, finished, opens, closed, corrupt, rd, ret, msdb, tx>>

LruGet ==
    \E key \in Files :
        /\ lru' = LRUgetTouch(lru, key, now)
        /\ UNCHANGED <<now, disk, fm, dm, ops, finished, opens, closed, corrupt, rd, ret, msdb, tx>>

LruDelete ==
    \E key \in Files :
        /\ lru' = LRUdelete(lru, key)
        /\ UNCHANGED <<now, disk, fm, dm, ops, finished, opens, closed, corrupt, rd, ret, msdb, tx>>

LruClear ==
    /\ lru' = LRUclear(lru)
    /\ UNCHANGED <<now, disk, fm, dm, ops, finished, opens, closed, corrupt, rd, ret, msdb, tx>>

LruCleanup ==
    /\ lru' = LRUcleanup(lru, now)
    /\ UNCHANGED <<now, disk, fm, dm, ops, finished, opens, closed, corrupt, rd, ret, msdb, tx>>

InitLRU ==
    /\ now = 0
    /\ disk = EmptyObj
    /\ fm = FMNew(EmptyObj)
    /\ dm = DMNew
    /\ ops = <<>>
    /\ finished = <<>>
    /\ opens = 0
    /\ closed = [cache |-> EmptyObj, nops |-> 0]
    /\ lru \in LruConfigs
    /\ corrupt = {}
    /\ rd = RdIdle
    /\ ret = RetNone
    /\ msdb = MsdbNew
    /\ tx = TxNone

NextLRU ==
    \/ LruSet
    \/ LruGet
    \/ LruDelete
    \/ LruClear
    \/ LruCleanup
    \/ Tick

SpecLRU == InitLRU /\ [][NextLRU]_vars

\* the cache under its cleanup timer; ret keeps the keys the last sweep deleted
LruSweep ==
    /\ lru' = LRUcleanup(lru, now)
    /\ ret' = [RetNone EXCEPT !.op = "cleanup",
                              !.pending = Keys(lru.cache) \ Keys(lru'.cache)]
    /\ UNCHANGED <<now, disk, fm, dm, ops, finished, opens, closed, corrupt, rd, msdb, tx>>

NextSweep ==
    \/ LruSet
    \/ LruGet
    \/ LruSweep
    \/ Tick

SpecSweep == InitLRU /\ [][NextSweep]_vars

\* ------------------------------------------------------------- claims

\* C7: after every LRUCache operation the number of cached entries is at most
\* maxSize and the tracked memory total is at most the byte budget.
CacheWithinBounds ==
    /\ Cardinality(Keys(lru.cache)) <= lru.maxSize
    /\ lru.currentMemoryBytes <= lru.maxMemoryMB * MB

\* an eviction has happened and the cache still holds entries
CacheEvictedWitness ==
    /\ lru.emitted # {}
    /\ Keys(lru.cache) # {}
    /\ lru.currentMemoryBytes > 0

\* ------------------------------------------- what the claims speak of
Accepted(k) == k <= Len(ops)
\* the completion handed to the caller: the promise of save, or of write
Completion(k) == IF ops[k].facade THEN ops[k].sstatus ELSE ops[k].wstatus
Returned(k) == \E i \in 1..Len(finished) : finished[i].op = k
Failed(k) == \E i \in 1..Len(finished) : finished[i].op = k /\ ~finished[i].ok
Position(k) == CHOOSE i \in 1..Len(finished) : finished[i].op = k
DiskPending(k) == k \in Keys(fm.inflight)

\* C1: right after save(id, v), whatever is queued or in flight, find(id)
\* gives the record with value v.
ReadAfterWrite ==
    [][(Len(ops') = Len(ops) + 1 /\ ops'[Len(ops')].facade)
         => LET o == ops'[Len(ops')]
            IN get(dm', o.id) = Entry(o.id, o.value)]_vars

\* a save that is still waiting in the save queue behind another one, and
\* find already gives its value
ReadBeforePersistWitness ==
    \E k \in 1..Len(ops) :
        /\ ops[k].facade /\ ops[k].sstatus = "pending" /\ ops[k].wstatus = "none"
        /\ Len(dm.saveQueue) > 0 /\ Keys(fm.inflight) # {}
        /\ get(dm, ops[k].id) = Entry(ops[k].id, ops[k].value)
        /\ \A file \in Keys(disk) : ops[k].id \notin Keys(disk[file])

\* C2: every accepted write eventually has its completion settled, given
\* that every disk write call returns or fails.
SomePending == \E k \in 1..Len(ops) : Completion(k) = "pending"
EveryWriteSettles == SomePending ~> ~SomePending

\* a write accepted while a batch is being drained has been settled
QueuedBehindBatchSettledWitness ==
    \E k \in 1..Len(ops) :
        /\ ops[k].batch > 1
        /\ Completion(k) \in Settled

\* C8: a completion is settled only when the writeFile call of its own
\* performWrite has returned, never while that call is pending or not begun.
SettlesAfterOwnWrite ==
    \A k \in 1..Len(ops) :
        (ops[k].wstatus \in Settled \/ ops[k].sstatus \in Settled)
            => (Returned(k) /\ ~DiskPending(k) /\ ops[k].wstatus \in Settled)

\* two writes of one batch: the disk write of one has returned and its
\* completion is settled, the other is still pending with its disk write
OneOfBatchSettledWitness ==
    \E j, k \in 1..Len(ops) :
        /\ j # k /\ ops[j].batch = ops[k].batch /\ ops[j].batch > 0
        /\ Completion(j) \in Settled
        /\ DiskPending(k) /\ Completion(k) = "pending"

\* C9: a write's completion rejects exactly when its own disk write failed,
\* and a failed write does not stop the others: every other accepted write
\* is still settled.
FailureIsolation ==
    /\ [](\A k \in 1..Len(ops) :
            /\ ops[k].wstatus = "rejected" <=> Failed(k)
            /\ ops[k].wstatus = "resolved" <=> (Returned(k) /\ ~Failed(k))
            /\ ops[k].sstatus \in Settled => ops[k].sstatus = ops[k].wstatus)
    /\ ((\E j \in 1..Len(ops) : Failed(j)) /\ SomePending) ~> ~SomePending

\* a write of a batch was rejected, and afterwards the disk write of another
\* write of the same batch returned and that write resolved
FailureIsolationWitness ==
    \E j, k \in 1..Len(ops) :
        /\ j # k /\ ops[j].batch = ops[k].batch /\ ops[j].batch > 0
        /\ Completion(j) = "rejected" /\ Completion(k) = "resolved"
        /\ Position(j) < Position(k)

\* C3: after the writes have completed (here: every save resolved), closing
\* the table and opening it on the same directory gives, once the shard files
\* are loaded, the record map it had before.
ReopenRestoresMap ==
    (/\ opens > 0 /\ Len(fm.loadFiles) = 0 /\ Len(ops) = closed.nops
     /\ \A k \in 1..Len(ops) : ops[k].sstatus = "resolved")
        => dm.cache = closed.cache

\* C4: when the cached copy of a shard is lost to eviction or to the sweep,
\* the next write to that shard keeps every record the file holds.  (Before
\* the first reopen every shard file was written through this cache, so a
\* shard missing from it was evicted or swept.)
RewriteKeepsDurable ==
    [][opens = 0 =>
        \A file \in Keys(disk) : \A id \in Keys(disk[file]) :
            id \in Keys(disk'[file])]_vars

\* C5: from an empty table, MAX_ENTRIES_PER_FILE + 1 saves of distinct ids,
\* all completed: two shard files, the first with MAX_ENTRIES_PER_FILE ids,
\* the second with one.
AllSavesResolved ==
    /\ opens = 0 /\ Quiet
    /\ Len(ops) = MAX_ENTRIES_PER_FILE + 1
    /\ \A k \in 1..Len(ops) : ops[k].facade /\ ops[k].sstatus = "resolved"
    /\ \A j, k \in 1..Len(ops) : j # k => ops[j].id # ops[k].id
ShardRollover ==
    AllSavesResolved =>
        /\ Keys(disk) = {0, 1}
        /\ Cardinality(Keys(disk[0])) = MAX_ENTRIES_PER_FILE
        /\ Cardinality(Keys(disk[1])) = 1

\* C6: for every indexed field f and value x, getByIndex(f, x) is exactly the
\* set of ids whose current record has value[f] = x.  The current record of
\* an id is the one of the last write of that id performWrite has taken.
Started(k) == ops[k].file # -1
LastWrite(id) ==
    CHOOSE k \in 1..Len(ops) :
        /\ Started(k) /\ ops[k].id = id
        /\ \A j \in 1..Len(ops) : (Started(j) /\ ops[j].id = id) => j <= k
Written == {ops[k].id : k \in {j \in 1..Len(ops) : Started(j)}}
AllShardsCached ==
    \A k \in 1..Len(ops) : Started(k) => ops[k].file \in Keys(fm.dataCache.cache)
IndexExact ==
    AllShardsCached =>
        \A field \in Keys(fm.indices) : \A x \in 1..MaxVal :
            getByIndex(fm, field, x)
                = {id \in Written : ops[LastWrite(id)].value[field] = x}

\* C10: two writes of one batch that go to the same shard.  The record of the
\* one begun first is in the file whichever disk write returns last; once
\* both have resolved, the record of the one begun second is missing exactly
\* when the disk write of the first returned last.
SameShardPair(j, k) ==
    /\ j < k /\ ops[j].batch = ops[k].batch /\ ops[j].batch > 0
    /\ ops[j].file = ops[k].file /\ ops[j].id # ops[k].id
    /\ ops[j].wstatus = "resolved" /\ ops[k].wstatus = "resolved"
    /\ \A l \in 1..Len(ops) : (l > j /\ l # k) => ops[l].file # ops[j].file
    /\ \A l \in 1..Len(ops) : (l < j /\ ops[l].file = ops[j].file)
                                  => ops[l].id # ops[k].id
SameShardRace ==
    \A j, k \in 1..Len(ops) :
        SameShardPair(j, k) =>
            LET file == disk[ops[j].file]
            IN /\ ops[j].id \in Keys(file)
               /\ file[ops[j].id] = Entry(ops[j].id, ops[j].value)
               /\ ops[k].id \notin Keys(file) <=> Position(j) > Position(k)

\* both completions resolved and the shard file lacks the second record
LostUpdateWitness ==
    \E j, k \in 1..Len(ops) :
        /\ SameShardPair(j, k)
        /\ ops[k].id \notin Keys(disk[ops[j].file])
        /\ Keys(fm.inflight) = {} /\ Len(fm.writeQueue) = 0

\* C11: at most one batch of the write queue is drained at a time: the disk
\* writes in flight all belong to the batch started last, a drain is marked
\* by isWriting, and no batch starts while the one before it still waits for
\* a disk write.
SingleDrain ==
    /\ \A k \in Keys(fm.inflight) : ops[k].batch = fm.batchNo /\ k \in fm.batch
    /\ fm.batch # {} => fm.isWriting
    /\ \A j, k \in 1..Len(ops) :
           (ops[j].batch > 0 /\ ops[j].batch < ops[k].batch)
               => (Returned(j) /\ (Returned(k) => Position(j) < Position(k)))

\* a batch waits for its disk writes while more writes are queued behind it
\* and an earlier batch has been drained
DrainWithQueueWitness ==
    /\ fm.isWriting /\ Keys(fm.inflight) # {} /\ Len(fm.writeQueue) > 0
    /\ fm.batchNo > 1

\* C12: a shard file that cannot be read or decoded is loaded as an empty
\* shard and the load goes on: each turn of the load puts the file it read in
\* the cache, empty when it is damaged and with its contents otherwise, and
\* moves the cursor; when the load is over every file of the directory has
\* been put in the cache (and is there unless the cache has evicted it since)
\* and the cursor is the highest index.
CorruptShardLoadsEmpty ==
    /\ [][Len(fm'.loadFiles) < Len(fm.loadFiles) =>
            LET file == Head(fm.loadFiles)
            IN /\ fm'.loadFiles = Tail(fm.loadFiles)
               /\ file \in Keys(fm'.dataCache.cache)
               /\ fm'.dataCache.cache[file].value =
                      IF file \in corrupt THEN EmptyObj ELSE disk[file]
               /\ fm'.currentFileIndex = Max(fm.currentFileIndex, file)]_vars
    /\ [](Len(fm.loadFiles) = 0 =>
            /\ \A file \in Keys(disk) :
                  IF file \in Keys(fm.dataCache.cache)
                  THEN fm.dataCache.cache[file].value =
                           IF file \in corrupt THEN EmptyObj ELSE disk[file]
                  ELSE file \in fm.dataCache.emitted
            /\ \A file \in Keys(disk) : fm.currentFileIndex >= file)

\* the load is over; a damaged file is cached empty and the file after it
\* is cached with its contents and is the current shard
LoadedPastCorruptWitness ==
    \E bad \in corrupt, file \in Keys(disk) \ corrupt :
        /\ bad < file /\ Len(fm.loadFiles) = 0
        /\ fm.dataCache.cache[bad].value = EmptyObj
        /\ fm.dataCache.cache[file].value = disk[file]
        /\ fm.currentFileIndex = file

\* C13: a read during which a disk read failed is reported to its caller as
\* a failure, not as the null of an id that is in no shard.
ReadFailureReported ==
    (rd.stage = "done" /\ rd.failed) => rd.status = "rejected"

\* C14: every mutation of the facade changes the record map and then queues
\* a persistence request for the change: a step that changes the record map
\* adds a write of the changed id, with the value the map now holds, to ops.
MutationEnqueues ==
    [][dm'.cache # dm.cache =>
          /\ Len(ops') = Len(ops) + 1
          /\ LET o == ops'[Len(ops')]
             IN /\ o.facade /\ o.sstatus = "pending"
                /\ o.id \in Keys(dm'.cache)
                /\ dm'.cache[o.id] = Entry(o.id, o.value)]_vars

\* C15: a save that is pending stays as it was accepted and leaves the save
\* queue only by being started; when remove(id) is called while a save of id
\* is pending, the disk write of that save is still made and its completion
\* still resolves or rejects.
InSaveQueue(d, k) == \E i \in 1..Len(d.saveQueue) : d.saveQueue[i] = k
RemovedWhilePending(k) ==
    /\ Accepted(k) /\ ret.op = "remove" /\ k \in ret.pending /\ ops[k].id = ret.id
NoCancellation ==
    /\ [][\A k \in 1..Len(ops) :
            ops[k].sstatus = "pending" =>
                /\ Len(ops') >= k
                /\ ops'[k].id = ops[k].id /\ ops'[k].value = ops[k].value
                /\ InSaveQueue(dm, k) => (InSaveQueue(dm', k) \/ dm'.awaiting = k)]_vars
    /\ \A k \in 1..MaxOps :
          RemovedWhilePending(k)
              ~> (Accepted(k) /\ ops[k].sstatus \in Settled /\ Returned(k))

\* remove(id) was called, and returned true, while a save of id was pending;
\* that save has resolved and its record is in its shard file
RemovedSaveOnDiskWitness ==
    \E k \in 1..Len(ops) :
        /\ RemovedWhilePending(k) /\ ret.result
        /\ ops[k].sstatus = "resolved"
        /\ ops[k].file \in Keys(disk) /\ ops[k].id \in Keys(disk[ops[k].file])
        /\ ops[k].id \notin Keys(dm.cache)

\* C16: remove(id) returns true exactly when the record map held id, leaves
\* the map without id (find gives null, exists gives false) and every other
\* record as it was; an id that is not in the map comes back only by a save
\* of that id.
RemoveDeletes ==
    /\ [][(ret'.n = ret.n + 1 /\ ret'.op = "remove") =>
            LET id == ret'.id
            IN /\ ret'.result = (id \in Keys(dm.cache))
               /\ get(dm', id) = Null
               /\ Keys(dm'.cache) = Keys(dm.cache) \ {id}
               /\ \A j \in Keys(dm'.cache) : dm'.cache[j] = dm.cache[j]]_vars
    /\ [][\A id \in Ids :
            (get(dm, id) = Null /\ get(dm', id) # Null) =>
                (Len(ops') = Len(ops) + 1 /\ ops'[Len(ops')].id = id)]_vars

\* remove returned true for a record that is gone, next to one that stayed
RemovedOneOfTwoWitness ==
    /\ ret.op = "remove" /\ ret.result
    /\ get(dm, ret.id) = Null
    /\ \E j \in Ids : j # ret.id /\ get(dm, j) # Null

NumericIds(field) ==
    {id \in Keys(dm.cache) : ~isNaN(Number(FieldOf(dm.cache[id], field)))}
RECURSIVE SumOf(_, _)
SumOf(ids, field) ==
    IF ids = {} THEN 0
    ELSE LET id == CHOOSE x \in ids : TRUE
         IN Number(FieldOf(dm.cache[id], field)).num + SumOf(ids \ {id}, field)
AggregateDefaults ==
    (ret.op = "aggregate" /\ ret.operation \in {"sum", "avg", "count"}) =>
        LET ids == NumericIds(ret.field)
        IN /\ ret.result.k = "number"
           /\ ids = {} => ret.result = Num(0)
           /\ ret.operation = "sum" => ret.result = Num(SumOf(ids, ret.field))
           /\ ret.operation = "count" => ret.result = Num(Cardinality(ids))
           /\ (ret.operation = "avg" /\ ids # {}) =>
                  /\ ret.result.num = SumOf(ids, ret.field)
                  /\ ret.result.den = Cardinality(ids)

\* avg over a table whose records all hold a value that is no number
AvgOfNoNumberWitness ==
    /\ ret.op = "aggregate" /\ ret.operation = "avg" /\ ret.field = "f"
    /\ Keys(dm.cache) # {} /\ NumericIds("f") = {}
    /\ ret.result = Num(0)

\* C19: min and max over no numeric value give an explicit undefined, not a
\* number-like sentinel; an unknown operation gives a defined default or an
\* explicit error.
MinMaxOfNothingUndefined ==
    ret.op = "aggregate" =>
        /\ (ret.operation \in {"min", "max"} /\ NumericIds(ret.field) = {})
               => ret.result.k = "undefined"
        /\ ret.operation \notin {"sum", "avg", "min", "max", "count"}
               => ret.result.k \in {"number", "error"}

\* C20: no shard the store has written, as the cache holds it, as a disk
\* write in flight carries it or as its file holds it, has more than
\* MAX_ENTRIES_PER_FILE ids.
ShardCapacity ==
    /\ \A file \in Keys(disk) :
           Cardinality(Keys(disk[file])) <= MAX_ENTRIES_PER_FILE
    /\ \A file \in Keys(fm.dataCache.cache) :
           Cardinality(Keys(fm.dataCache.cache[file].value)) <= MAX_ENTRIES_PER_FILE
    /\ \A k \in Keys(fm.inflight) :
           Cardinality(Keys(fm.inflight[k].data)) <= MAX_ENTRIES_PER_FILE

\* a shard file is full and the write after it went to the next shard file
FullShardRolledOverWitness ==
    \E file \in Keys(disk) :
        /\ Cardinality(Keys(disk[file])) = MAX_ENTRIES_PER_FILE
        /\ file + 1 \in Keys(disk)
        /\ fm.currentFileIndex = file + 1

\* C21: the current-shard index never decreases while a table is open and a
\* write moves it by at most one; a write goes to the shard file of the index
\* that is current when it is made and its disk write changes that file only;
\* a shard file that has a successor in the directory is closed, it is never
\* written again.
ClosedShardsStayClosed ==
    /\ [][opens' = opens =>
            /\ fm'.currentFileIndex >= fm.currentFileIndex
            /\ Len(fm'.loadFiles) = Len(fm.loadFiles)
                   => fm'.currentFileIndex <= fm.currentFileIndex + 1
            /\ \A k \in Keys(fm'.inflight) \ Keys(fm.inflight) :
                   fm'.inflight[k].file = fm'.currentFileIndex]_vars
    /\ [][\A file \in Keys(disk) :
            disk'[file] # disk[file] =>
                /\ \E k \in Keys(fm.inflight) \ Keys(fm'.inflight) :
                       fm.inflight[k].file = file
                /\ \A other \in Keys(disk) : other <= file]_vars

\* C22: in the earlier table, whenever a save has returned the write cache
\* holds fewer than CACHE_LIMIT entries; a save that returns and, with its own
\* entry, finds CACHE_LIMIT entries or more in the cache has started a
\* saveTableData over all the entries of the table and left the cache empty.
WriteCacheBelowLimit ==
    /\ [](msdb.returned = "returned" => Cardinality(Keys(msdb.cache)) < CACHE_LIMIT)
    /\ [][(/\ msdb'.calls = msdb.calls + 1
            /\ msdb'.returned = "returned"
            /\ Cardinality(Keys(msdb.cache) \cup {msdb'.id}) >= CACHE_LIMIT)
           => /\ msdb'.cache = EmptyObj
              /\ Len(msdb'.flushes) = Len(msdb.flushes) + 1
              /\ msdb'.flushes[Len(msdb'.flushes)] = [entries |-> entries(msdb'), i |-> 0]
              /\ Keys(msdb'.tableData) = Keys(msdb.tableData) \cup {msdb'.id}]_vars

\* a save has returned after it started the flush of a table of CACHE_LIMIT
\* entries or more, and the flush is still at its first part
FlushStartedWitness ==
    /\ msdb.returned = "returned"
    /\ msdb.cache = EmptyObj
    /\ Len(msdb.order) >= CACHE_LIMIT
    /\ Len(msdb.flushes) > 0
    /\ msdb.flushes[Len(msdb.flushes)] = [entries |-> entries(msdb), i |-> 0]

\* C23: every record that was in a shard file when the table was opened is
\* still in a shard file after any saves, also saves whose write runs before
\* loadExistingFiles has cached the shards and set the index.
LoadedRecordsStayOnDisk ==
    \A id \in Keys(closed.cache) :
        \E file \in Keys(disk) : id \in Keys(disk[file])

\* C24: when every write enters through save, at most one performWrite is
\* under way and no batch holds two writes; a write is begun only when the disk
\* write of every save called before it has returned, so no two writes of one
\* batch ever share a shard (batches are numbered anew when the table is
\* opened again).
OneWriteAtATime ==
    /\ Cardinality(Keys(fm.inflight)) <= 1
    /\ Cardinality(fm.batch) <= 1
    /\ \A k \in 1..Len(ops) :
           Started(k) => \A j \in 1..(k - 1) :
                            ops[j].wstatus \in Settled /\ Returned(j)
    /\ \A j, k \in 1..Len(ops) :
           (closed.nops < j /\ j < k /\ ops[j].batch > 0)
               => ops[j].batch # ops[k].batch

\* the disk write of the second save is under way, the first has returned
\* and a third save waits in the save queue
SecondSaveWritingWitness ==
    /\ Len(ops) = 3
    /\ DiskPending(2) /\ Returned(1)
    /\ dm.saveQueue = <<3>>
    /\ ops[2].file = ops[1].file

\* C25: a non-empty save queue has its drain loop running (isSaving); a
\* non-empty write queue has a batch being drained (isWriting) or a
\* setImmediate callback scheduled; and an item pushed while a drain is in
\* progress is started, with no further save or write, once the callbacks that
\* are due have run.
NoLostWakeUp ==
    /\ [](Len(dm.saveQueue) > 0 => dm.isSaving)
    /\ [](Len(fm.writeQueue) > 0 => fm.isWriting \/ fm.immediates > 0)
    /\ [](dm.isSaving => dm.awaiting # 0 /\ ops[dm.awaiting].sstatus = "pending")
    /\ \A k \in 1..MaxOps :
           (Accepted(k) /\ ~Started(k)) ~> (Accepted(k) /\ Started(k))

\* a write was pushed while a batch was being drained, nothing was enqueued
\* after it, and it has been started
PushedDuringDrainStartedWitness ==
    /\ Len(ops) = MaxOps
    /\ Started(MaxOps)
    /\ ops[MaxOps].batch > 1
    /\ \E j \in 1..(MaxOps - 1) : ops[j].batch = ops[MaxOps].batch - 1 /\ Returned(j)
    /\ \E j \in 1..(MaxOps - 1) : ops[j].facade /\ ops[j].sstatus \in Settled

\* C26: the access order lists the cached keys, each once, from the one whose
\* last set or get is oldest to the one used last (a set or get moves its key
\* to the end and nothing else reorders the list); the keys a set evicts are
\* older, in that order, than every key it leaves in the cache.
PosIn(order, key) == CHOOSE i \in 1..Len(order) : order[i] = key
EvictsOldest ==
    /\ [](/\ {lru.accessOrder[i] : i \in 1..Len(lru.accessOrder)} = Keys(lru.cache)
          /\ Len(lru.accessOrder) = Cardinality(Keys(lru.cache)))
    /\ [][\A key \in Files :
            (/\ key \in Keys(lru'.cache) \cup lru'.emitted
             /\ \E value \in LruValues : lru' = LRUset(lru, key, value, now)) =>
                LET used == Append(Without(lru.accessOrder, key), key)
                    victims == (Keys(lru.cache) \cup {key}) \ Keys(lru'.cache)
                IN /\ \A v \in victims : \A kept \in Keys(lru'.cache) :
                          PosIn(used, v) < PosIn(used, kept)
                   /\ lru'.accessOrder
                          = SelectSeq(used, LAMBDA k : k \in Keys(lru'.cache))]_vars
    /\ [][\A key \in Keys(lru.cache) :
            lru' = LRUgetTouch(lru, key, now) =>
                /\ Keys(lru'.cache) = Keys(lru.cache)
                /\ lru'.accessOrder = Append(Without(lru.accessOrder, key), key)]_vars
    /\ [][\A a, b \in Keys(lru.cache) \cap Keys(lru'.cache) :
            (PosIn(lru.accessOrder, a) < PosIn(lru.accessOrder, b)
             /\ PosIn(lru'.accessOrder, b) < PosIn(lru'.accessOrder, a))
                => a = lru'.accessOrder[Len(lru'.accessOrder)]]_vars

\* a key has been evicted and is out of the cache while two keys used after
\* it are kept, the one inserted first being the one used last
EvictedOldestWitness ==
    /\ \E v \in lru.emitted : v \notin Keys(lru.cache)
    /\ Len(lru.accessOrder) = 2
    /\ lru.accessOrder[1] = lru.keyOrder[2]
    /\ lru.accessOrder[2] = lru.keyOrder[1]

\* C27: a set whose key brings the entry count to at most maxSize, the memory
\* total staying within the budget, evicts nothing: the cache then holds the
\* keys it held and the key just set.
EvictionThreshold ==
    [][\A key \in Files, value \in LruValues :
        (/\ key \in Keys(lru'.cache) \cup lru'.emitted
         /\ lru' = LRUset(lru, key, value, now)
         /\ Cardinality(Keys(lru.cache) \cup {key}) <= lru.maxSize
         /\ calculateSize(value) + lru.currentMemoryBytes
               - (IF key \in Keys(lru.cache) THEN lru.cache[key].size ELSE 0)
                  <= lru.maxMemoryMB * MB)
            => Keys(lru'.cache) = Keys(lru.cache) \cup {key}]_vars

\* C28: a read(id) of the shard store that is answered from a cached shard
\* leaves that shard with accessTime = now and as the last key of the recency
\* order.
ServingShard(id) ==
    LET c == fm.dataCache
        i == CHOOSE n \in 1..Len(c.keyOrder) :
                 /\ id \in Keys(c.cache[c.keyOrder[n]].value)
                 /\ \A m \in 1..(n - 1) : id \notin Keys(c.cache[c.keyOrder[m]].value)
    IN c.keyOrder[i]
CachedReadRefreshes ==
    [][(/\ rd.stage \in {"idle", "done"}
        /\ rd' # rd
        /\ rd'.stage = "done"
        /\ rd'.result # Null)
         => LET file == ServingShard(rd'.id)
                c == fm'.dataCache
            IN /\ file \in Keys(c.cache)
               /\ c.cache[file].accessTime = now
               /\ c.accessOrder[Len(c.accessOrder)] = file]_vars

\* C29: when every write of id has completed, in the order the writes were
\* made, a read(id) answered from the cached shards returns the record of the
\* last of them, also when that write went to a new shard and an older shard
\* still holds an earlier record of id.
WritesOf(id) == {k \in 1..Len(ops) : ops[k].id = id}
ReadsLatestRecord ==
    [][(/\ rd.stage \in {"idle", "done"}
        /\ rd' # rd
        /\ rd'.stage = "done"
        /\ WritesOf(rd'.id) # {}
        /\ \A k \in WritesOf(rd'.id) : ops[k].wstatus = "resolved"
        /\ \A j, k \in WritesOf(rd'.id) : j < k => Position(j) < Position(k))
         => LET k == CHOOSE n \in WritesOf(rd'.id) : \A j \in WritesOf(rd'.id) : j <= n
            IN rd'.result = Entry(rd'.id, ops[k].value)]_vars

\* C30: the write of a save puts the record into the cached shard and into
\* every index before the disk write is attempted; a save whose disk write
\* failed is rejected, never resolved, and nothing is taken back: the step of
\* the failure leaves the record map, the cached shards and the indices as they
\* were, and as long as no later save of the id is made find(id) gives the
\* record and the shard, while it is cached, holds it.
LastOf(k) == \A j \in 1..Len(ops) : ops[j].id = ops[k].id => j <= k
NotRolledBack ==
    /\ [](\A k \in 1..Len(ops) :
            (ops[k].facade /\ Failed(k)) =>
                LET id == ops[k].id
                    entry == Entry(id, ops[k].value)
                    file == ops[k].file
                IN /\ ops[k].wstatus = "rejected"
                   /\ ops[k].sstatus \in {"pending", "rejected"}
                   /\ LastOf(k) =>
                         /\ get(dm, id) = entry
                         /\ file \in Keys(fm.dataCache.cache) =>
                               /\ id \in Keys(fm.dataCache.cache[file].value)
                               /\ fm.dataCache.cache[file].value[id] = entry)
    /\ [][\A k \in Keys(fm'.inflight) \ Keys(fm.inflight) :
            LET id == ops'[k].id
                entry == Entry(id, ops'[k].value)
                file == fm'.inflight[k].file
            IN /\ file \in Keys(fm'.dataCache.cache)
               /\ id \in Keys(fm'.dataCache.cache[file].value)
               /\ fm'.dataCache.cache[file].value[id] = entry
               /\ \A field \in Keys(fm'.indices) :
                      id \in getByIndex(fm', field, entry.value[field])]_vars
    /\ [][\A k \in Keys(fm.inflight) \ Keys(fm'.inflight) :
            ops'[k].wstatus = "rejected" =>
                /\ dm' = dm
                /\ fm'.dataCache = fm.dataCache
                /\ fm'.indices = fm.indices
                /\ disk' = disk]_vars
    /\ [][\A k \in 1..Len(ops) :
            (ops[k].sstatus = "pending" /\ ops'[k].sstatus = "rejected")
                => dm'.cache = dm.cache]_vars

\* a save has been rejected, its record is in no shard file, and the map and
\* an index still have it
FailedSaveKeptWitness ==
    \E k \in 1..Len(ops) :
        /\ ops[k].facade /\ Failed(k) /\ LastOf(k)
        /\ ops[k].sstatus = "rejected"
        /\ \A file \in Keys(disk) : ops[k].id \notin Keys(disk[file])
        /\ get(dm, ops[k].id) = Entry(ops[k].id, ops[k].value)
        /\ "f" \in Keys(fm.indices)
        /\ ops[k].id \in getByIndex(fm, "f", ops[k].value.f)
        /\ Keys(fm.inflight) = {}

\* C31: a sweep deletes exactly the entries with now - accessTime greater
\* than LRU_MAX_AGE, whatever the entry count and the memory total; it leaves
\* every other entry as it was and takes the sizes of the deleted entries off
\* the memory total.
RECURSIVE SizeSum(_, _)
SizeSum(c, keys) ==
    IF keys = {} THEN 0
    ELSE LET key == CHOOSE k \in keys : TRUE
         IN c.cache[key].size + SizeSum(c, keys \ {key})
SweepDeletesAged ==
    [][lru' = LRUcleanup(lru, now) =>
          LET aged == {key \in Keys(lru.cache) :
                          now - lru.cache[key].accessTime > LRU_MAX_AGE}
          IN /\ Keys(lru'.cache) = Keys(lru.cache) \ aged
             /\ \A key \in Keys(lru'.cache) : lru'.cache[key] = lru.cache[key]
             /\ lru'.currentMemoryBytes = lru.currentMemoryBytes - SizeSum(lru, aged)
             /\ lru'.emitted = lru.emitted]_vars

\* the last sweep deleted an entry and kept another, the cache being below
\* its maximum and within its budget
SweptAgedKeptFreshWitness ==
    /\ ret.op = "cleanup"
    /\ ret.pending # {}
    /\ ret.pending \cap Keys(lru.cache) = {}
    /\ Keys(lru.cache) # {}
    /\ \A key \in Keys(lru.cache) : now - lru.cache[key].accessTime <= LRU_MAX_AGE
    /\ Cardinality(Keys(lru.cache)) + Cardinality(ret.pending) < lru.maxSize

\* C32: the step that gives a field its index leaves, for every value x, the
\* index entry of x equal to the set of ids that have a record with that
\* value of the field in some cached shard (and no entry for a value no cached
\* record has); createIndex on a field that has an index changes nothing.
CachedIdsWith(m, field, x) ==
    {id \in Ids : \E file \in Keys(m.dataCache.cache) :
        LET data == m.dataCache.cache[file].value
        IN id \in Keys(data) /\ field \in DOMAIN data[id].value
                              /\ data[id].value[field] = x}
CreateIndexRebuilds ==
    /\ [][\A field \in Fields :
            (field \notin Keys(fm.indices) /\ field \in Keys(fm'.indices)) =>
                /\ fm'.dataCache = fm.dataCache
                /\ \A x \in 1..MaxVal :
                       getByIndex(fm', field, x) = CachedIdsWith(fm', field, x)
                /\ Keys(fm'.indices[field])
                       = {x \in 1..MaxVal : CachedIdsWith(fm', field, x) # {}}
                /\ \A other \in Keys(fm.indices) :
                       other \in Keys(fm'.indices)
                       /\ fm'.indices[other] = fm.indices[other]]_vars
    /\ [](\A field \in Keys(fm.indices) : createIndex(fm, field) = fm)

\* an index exists and lists an id, and a record written earlier, whose
\* shard is no longer cached, is in no entry of it: the index was built from
\* the cached shards
RebuiltFromCachedWitness ==
    /\ "f" \in Keys(fm.indices)
    /\ fm.indices["f"] # EmptyObj
    /\ \E k \in 1..Len(ops) :
           /\ Started(k)
           /\ ops[k].wstatus = "resolved"
           /\ \A x \in 1..MaxVal : ops[k].id \notin getByIndex(fm, "f", x)

\* C33: whatever createIndex, dropIndex and writes have been made, every
\* value an index map holds has at least one id.
NoEmptyIndexEntry ==
    \A field \in Keys(fm.indices) :
        \A x \in Keys(fm.indices[field]) : fm.indices[field][x] # {}

\* an id was written with f = 1 and then, into the same shard, with f = 2;
\* the index of f lists it under 2 and has no entry for 1 any more
IndexEntryDroppedWitness ==
    /\ "f" \in Keys(fm.indices)
    /\ Keys(fm.indices["f"]) = {2}
    /\ Len(ops) = 2
    /\ Started(1) /\ Started(2)
    /\ ops[1].id = ops[2].id /\ ops[1].file = ops[2].file
    /\ ops[1].value.f = 1 /\ ops[2].value.f = 2
    /\ fm.indices["f"][2] = {ops[2].id}

\* C34: when the load has completed and no write has been made, the index
\* is the highest index of the shard files of the directory, 0 when there is
\* none; the first write made after the load goes to the shard of that index
\* when it holds fewer than MAX_ENTRIES_PER_FILE records and to the next
\* index otherwise.
HighestShard(d) == IF Keys(d) = {} THEN 0 ELSE CHOOSE i \in Keys(d) : \A j \in Keys(d) : j <= i
CursorAfterLoad ==
    /\ []((Len(fm.loadFiles) = 0 /\ Len(ops) = 0)
            => fm.currentFileIndex = HighestShard(disk))
    /\ [][(Len(fm.loadFiles) = 0 /\ Len(ops) = 0 /\ Len(ops') = 1) =>
            LET h == HighestShard(disk)
                full == h \in Keys(disk)
                        /\ Cardinality(Keys(disk[h])) >= MAX_ENTRIES_PER_FILE
            IN /\ Started(1)'
               /\ ops'[1].file = IF full THEN h + 1 ELSE h
               /\ fm'.currentFileIndex = ops'[1].file]_vars

\* the directory has shards 0 and 1 and the first save, made after the load,
\* is being written to shard 1
FirstWriteInHighestWitness ==
    /\ Keys(disk) = {0, 1}
    /\ Len(fm.loadFiles) = 0
    /\ Len(ops) = 1
    /\ DiskPending(1)
    /\ ops[1].file = 1
    /\ fm.currentFileIndex = 1

\* C35: transaction makes its saves one at a time and in the order of the
\* list; it returns true exactly when no save rejected, all operations then
\* being applied; when a save rejects it returns false, no later operation
\* is applied, and the record map is what the operations up to and with the
\* rejected save made of it.
RECURSIVE Applied(_, _)
Applied(operations, n) ==
    IF n = 0 THEN EmptyObj
    ELSE LET before == Applied(operations, n - 1)
             op == operations[n]
         IN IF op.type = "save" THEN Put(before, op.id, Entry(op.id, op.data))
            ELSE IF op.type = "remove" THEN Del(before, op.id)
            ELSE IF op.id \in Keys(before)
                 THEN Put(before, op.id,
                          Entry(op.id, [before[op.id].value EXCEPT !.f = op.data.f]))
                 ELSE before
RECURSIVE SavesOf(_, _)
SavesOf(operations, n) ==
    IF n = 0 THEN <<>>
    ELSE LET op == operations[n]
         IN IF op.type = "save"
               \/ (op.type = "update" /\ op.id \in Keys(Applied(operations, n - 1)))
            THEN Append(SavesOf(operations, n - 1), Applied(operations, n)[op.id])
            ELSE SavesOf(operations, n - 1)
TransactionResult ==
    /\ tx.status # "none" =>
          /\ [k \in 1..Len(ops) |-> Entry(ops[k].id, ops[k].value)]
                 = SavesOf(tx.operations, tx.pos - 1)
          /\ dm.cache = Applied(tx.operations, tx.pos - 1)
          /\ Cardinality({k \in 1..Len(ops) : ops[k].sstatus = "pending"}) <= 1
          /\ \A k \in 1..(Len(ops) - 1) : ops[k].sstatus = "resolved"
    /\ tx.status = "returned" =>
          /\ tx.result = (\A k \in 1..Len(ops) : ops[k].sstatus # "rejected")
          /\ tx.result => tx.pos = Len(tx.operations) + 1
          /\ ~tx.result => ops[Len(ops)].sstatus = "rejected"

\* transaction has returned false at the second of three operations: the
\* first save and the rejected one are in the map, the third was not made
TransactionStoppedWitness ==
    /\ tx.status = "returned" /\ ~tx.result
    /\ Len(tx.operations) = 3 /\ tx.pos = 3
    /\ tx.operations[3].type = "save"
    /\ Len(ops) = 2
    /\ ops[1].id # ops[2].id
    /\ Keys(dm.cache) = {ops[1].id, ops[2].id}
    /\ tx.operations[3].id \notin Keys(dm.cache)

RemovedIsGone ==
    msdb.returned = "removed" =>
        /\ getEntry(msdb, msdb.id) = Null
        /\ \A orderBy \in {"asc", "desc"} :
               \A k \in 1..Len(getAllEntries(msdb, orderBy)) :
                   getAllEntries(msdb, orderBy)[k].id # msdb.id
        /\ \A condition \in {EmptyObj} \cup Values :
               \A k \in 1..Len(getWhere(msdb, condition)) :
                   getWhere(msdb, condition)[k].id # msdb.id
        /\ \A r \in 1..(Len(msdb.cacheOrder) + Len(msdb.order)) :
               getRandomEntry(msdb, r).id # msdb.id

\* C38: getAll (in either order) and getWhere (for any condition) of the
\* earlier table list no id twice.
ListedOnce ==
    /\ \A orderBy \in {"asc", "desc"} :
           \A j, k \in 1..Len(getAllEntries(msdb, orderBy)) :
               getAllEntries(msdb, orderBy)[j].id = getAllEntries(msdb, orderBy)[k].id
                   => j = k
    /\ \A condition \in {EmptyObj} \cup Values :
           \A j, k \in 1..Len(getWhere(msdb, condition)) :
               getWhere(msdb, condition)[j].id = getWhere(msdb, condition)[k].id
                   => j = k

\* C39: in every state of the cache, whatever operations it has gone through
\* (set with its eviction, get, delete, clear, the sweep), every cached key
\* is at exactly one place of the access order and no other key is in it.
RecencyListIsKeys ==
    \A key \in Files :
        Cardinality({i \in 1..Len(lru.accessOrder) : lru.accessOrder[i] = key})
            = IF key \in Keys(lru.cache) THEN 1 ELSE 0

\* after an eviction, two keys are cached and a later get or set has put the
\* one inserted first behind the other in the access order
ReorderedAfterEvictionWitness ==
    /\ lru.emitted # {}
    /\ Cardinality(Keys(lru.cache)) = 2
    /\ Len(lru.accessOrder) = 2
    /\ lru.accessOrder # lru.keyOrder

\* C40: in every state of the cache the memory total is the sum of the sizes
\* stored with the cached entries, hence not negative, and 0 when nothing is
\* cached; a set of a key that is cached changes the total by the difference
\* of the new size and the replaced one when it evicts nothing.
MemoryIsSumOfSizes ==
    /\ [](/\ lru.currentMemoryBytes = SizeSum(lru, Keys(lru.cache))
          /\ lru.currentMemoryBytes >= 0
          /\ (Keys(lru.cache) = {} => lru.currentMemoryBytes = 0))
    /\ [][\A key \in Keys(lru.cache) :
            (/\ key \in Keys(lru'.cache)
             /\ Keys(lru'.cache) = Keys(lru.cache)
             /\ \E value \in LruValues : lru' = LRUset(lru, key, value, now)) =>
                lru'.currentMemoryBytes
                    = lru.currentMemoryBytes - lru.cache[key].size + lru'.cache[key].size]_vars

\* two entries of different sizes are cached after an eviction, and the
\* total is the sum of the two sizes
TotalOfTwoSizesWitness ==
    /\ lru.emitted # {}
    /\ \E j, k \in Keys(lru.cache) :
           /\ Keys(lru.cache) = {j, k}
           /\ lru.cache[j].size < lru.cache[k].size
           /\ lru.cache[j].size > calculateSize(<<>>)
           /\ lru.currentMemoryBytes = lru.cache[j].size + lru.cache[k].size

====
